---- MODULE Spec2Model ----
(***************************************************************************)
(* Multi-rig F1 telemetry pipeline: one F1TelemetryReceiverMulti per rig   *)
(* (src/src/receiver_multi.py) owned by a TelemetryGateway                  *)
(* (src/src/telemetry_gateway.py).  Each receiver thread decodes the        *)
(* datagrams of its own UDP port, runs the lap/session state machine and    *)
(* calls back into the gateway, which counts, enriches and forwards the     *)
(* event.                                                                    *)
(***************************************************************************)
EXTENDS Integers, Sequences, FiniteSets, TLC

(***************************************************************************)
(* Bounds of the model                                                     *)
(***************************************************************************)
\* datagrams delivered to each rig's port in the two-rig specification
MaxDatagrams == 2
\* datagrams delivered to the single fed rig in the state-machine
\* specification
MaxFeed == 4
\* events the rigs hand to the publisher in the publisher specification
MaxPubEvents == 2
\* subscribe and unsubscribe requests each client sends
MaxRequests == 2
\* datagrams sent to each port in the life-cycle specification
MaxLifeDatagrams == 2
\* successive calls of stop()
MaxStops == 2
\* calls of start()
MaxStarts == 2
\* datagrams fed to the rig whose events are followed to the subscriber
MaxEdgeFeed == 3
\* datagrams fed to the rig whose callbacks may raise
MaxRaiseFeed == 3
\* datagrams the TelemetryBridge receives
MaxBridgeDatagrams == 6
\* calls of _send_payload the bridge submits to its executor
MaxSubmits == 3
\* calls made on the SessionService
MaxCalls == 5
\* events the rigs hand to the publisher when its merge is followed key by
\* key
MaxFineEvents == 2
\* subscribe requests a client sends while the merges are followed step
\* by step
MaxFineRequests == 1
\* events the rigs hand to the publisher while a client stops receiving
MaxSlowEvents == 1
\* bytes a slice is shorter or longer than the smallest one its decoder
\* accepts
MaxSlack == 2
\* lap records the game sends in the decoder specification
MaxSeed == 2

\* seconds the clock advances in the status specification
MaxTime == 6

\* datagrams sent to each port in the status specification
MaxStatusDatagrams == 1

(***************************************************************************)
(* Program constants                                                       *)
(***************************************************************************)
None == -1

PACKET_ID_MOTION == 0
PACKET_ID_SESSION == 1
PACKET_ID_LAP_DATA == 2
PACKET_ID_EVENT == 3
PACKET_ID_CAR_TELEMETRY == 6
PACKET_ID_CAR_STATUS == 7
PACKET_ID_CAR_DAMAGE == 10

\* struct.calcsize of the wire formats
HEADER_SIZE == 29
LAP_DATA_SIZE == 55
TELEMETRY_DATA_SIZE == 60
CAR_STATUS_SIZE == 55
CAR_DAMAGE_SIZE == 42
SESSION_MIN_SIZE == 8
MOTION_DATA_SIZE == 60
MOTION_POSITION_SIZE == 12
NUM_CARS == 22

\* range checks of _handle_lap_data
MAX_POSITION == 22
MAX_LAP_NUM == 200
MAX_LAP_TIME_MS == 7200000
MIN_COMPLETED_LAP_MS == 30000
MAX_COMPLETED_LAP_MS == 600000

\* the format id TelemetryBridge.run accepts
PACKET_FORMAT_2024 == 2024

\* seconds after its last packet during which a source counts as active
ACTIVE_WINDOW == 5

\* the reading of the wall clock when the gateway is built (time.time() is
\* never 0, which Python would take for "no packet yet")
StartTime == 1

\* the configured rigs (app_dual_rig.py)
rigs ==
  << [rig_id |-> "RIG_A", udp_port |-> 20777, driver_name |-> "Driver A",
      device_id |-> "SIM_A", individual_id |-> "IND_A"],
     [rig_id |-> "RIG_B", udp_port |-> 20778, driver_name |-> "Driver B",
      device_id |-> "SIM_B", individual_id |-> "IND_B"] >>

RigIds == { rigs[i].rig_id : i \in 1..Len(rigs) }

\* the RigConfig whose rig_id is r
ConfigOf(r) == CHOOSE c \in { rigs[i] : i \in 1..Len(rigs) } : c.rig_id = r

(***************************************************************************)
(* State                                                                   *)
(***************************************************************************)
VARIABLES
  running,          \* TelemetryGateway.running
  startPc,          \* position of the caller of TelemetryGateway.start()
  rig,              \* the loop variable of start() captured by every
                    \* packet_callback lambda (index into rigs, 0 = unbound)
  receivers,        \* rig_id -> state of its F1TelemetryReceiverMulti
  receiver_threads, \* rig ids whose receiver thread has been started
  stats,            \* TelemetryGateway.stats
  active_sessions,  \* TelemetryGateway.active_sessions: sessionUID -> rig_id
  pc,               \* position of each receiver thread
  pending,          \* the packet_data a receiver thread is calling back with
  forwarded,        \* last enriched packet handed to event_callback per rig
  arrived,          \* history: datagrams delivered to each rig's port
  emitted,          \* history: events each receiver handed to its callback
  actor,            \* history: the rig whose thread took the last step
  lastDatagram,     \* history: the datagram processed by the last receive
  lastLapEvent,     \* history: latest lap event of the rig's current session
  prevLapEvent      \* history: the lap event before lastLapEvent

VARIABLES
  registered,       \* the keys of TelemetryGateway.receivers
  stops,            \* history: calls of stop() that have returned since
                    \* the gateway was built or start() was last called
  bind_failed       \* history: rigs whose listener could not bind its port

VARIABLES
  aggregated_state, \* WebSocketPublisher.aggregated_state: rig_id -> snapshot
  rooms,            \* Socket.IO room -> the clients that joined it
  inbox,            \* client -> the messages sent to it, in order
  pubPc,            \* position of each receiver thread in on_telemetry_packet
  subPc,            \* position of each client's subscribe handler
  subArg,           \* the room that subscribe handler was called for
  subPayload,       \* the replay payload that handler has built
  subSeq,           \* history: events merged into that payload
  merged,           \* history: events merged per rig, in order
  emissions,        \* history: per rig, emits to its own room and to 'all'
  joinedAt,         \* history: length of the client's inbox when its running
                    \* subscribe handler joined the room (None: the room
                    \* held no snapshot then, or the client was a member)
  unsubscribed,     \* history: rigs the client unsubscribed from and has
                    \* not subscribed to since
  key_order,        \* the keys of aggregated_state in insertion order
  requests          \* history: requests each client has sent

gwVars == << running, startPc, rig, receivers, receiver_threads, stats,
             active_sessions, pc, pending, forwarded, arrived, emitted, actor,
             lastDatagram, lastLapEvent, prevLapEvent >>

lifeVars == << registered, stops, bind_failed >>

VARIABLES
  now               \* the wall clock read by time.time(), in seconds

VARIABLES
  wire,             \* the byte slice handed to a decoder
  decoded           \* what the decoder returned for it

VARIABLES
  mergePacket,      \* the packet_data each thread is merging key by key
  mergeLeft,        \* the keys of it that the merge loop has yet to assign
  iter,             \* the dictionary iterator of each client's
                    \* subscribe_all handler
  failed            \* history: clients one of whose handlers has raised

VARIABLES
  blocked,          \* the clients whose connection takes no more messages
  received          \* per client, the messages of its queue it was sent

VARIABLES
  callback_errors   \* history: per rig, the callback errors it has logged

VARIABLES
  listeners,        \* per rig, every receiver created for it with its thread
  registry          \* per rig, which of them gateway.receivers holds (0: none)

VARIABLES
  bridge,           \* the attributes of the TelemetryBridge
  tasks,            \* calls of _send_payload the executor has yet to start
  workers,          \* the two worker threads of TelemetryBridge.executor
  posted,           \* history: the payloads the API answered with a 2xx
  completions,      \* history: lap times of the completions detected
  submits           \* history: calls of executor.submit

VARIABLES
  Session__c,       \* the table of SessionRepository: Id -> row
  svc_active,       \* SessionService._active_sessions: rig -> session Id
  calls             \* history: calls made on the SessionService

pubVars == << aggregated_state, rooms, inbox, pubPc, subPc, subArg,
              subPayload, subSeq, merged, emissions, joinedAt, unsubscribed,
              key_order, requests >>

clockVars == << now >>

decVars == << wire, decoded >>

fineVars == << mergePacket, mergeLeft, iter, failed >>

slowVars == << blocked, received >>

errVars == << callback_errors >>

genVars == << listeners, registry >>

bridgeVars == << bridge, tasks, workers, posted, completions, submits >>

svcVars == << Session__c, svc_active, calls >>

vars ==
  << gwVars, lifeVars, pubVars, clockVars, decVars, fineVars, slowVars,
     errVars, genVars, bridgeVars, svcVars >>

NoEvent == [packetId |-> None]

\* a datagram: its length, the header fields the receiver reads
\* (m_packetFormat is the only format id the source names) and the lap
\* data fields of the player car
Datagram(len, id, uid, idx, pos, lap, last, cur) ==
  [len |-> len, packetFormat |-> PACKET_FORMAT_2024, packetId |-> id,
   sessionUID |-> uid, playerCarIndex |-> idx,
   carPosition |-> pos, currentLapNum |-> lap, lastLapTimeInMS |-> last,
   currentLapTimeInMS |-> cur]

\* datagram d sent by a game set to another telemetry format
WithFormat(d, fmt) == [d EXCEPT !.packetFormat = fmt]

NoDatagram == Datagram(0, None, None, 0, 0, 0, 0, 0)

\* Python dict merge {**a, **b}
Merge(a, b) ==
  [k \in DOMAIN a \cup DOMAIN b |-> IF k \in DOMAIN b THEN b[k] ELSE a[k]]

(***************************************************************************)
(* F1TelemetryReceiverMulti                                                *)
(***************************************************************************)
\* instance attributes set by __init__
NewReceiver ==
  [packet_count |-> 0,
   last_packet_time |-> None,
   current_lap_num |-> 0,
   lap_just_completed |-> FALSE,
   last_lap_time_ms |-> 0,
   validated_last_lap_time |-> None,
   current_session_uid |-> None,
   running |-> FALSE,
   socket |-> "none"]

\* _cleanup: the socket, if one was created, is closed
Cleanup(st) ==
  [st EXCEPT !.socket = IF @ = "none" THEN "none" ELSE "closed"]

\* run() when bind raises: the socket was created, the exception is logged
\* and the finally clause runs _cleanup
BindFailure(st) == Cleanup([st EXCEPT !.socket = "open"])

\* F1TelemetryReceiverMulti.stop
ReceiverStop(st) == [st EXCEPT !.running = FALSE]

\* run() up to its loop when the port can be bound: the socket is created,
\* bound and given its timeout, then the running flag is raised
Bound(st) == [st EXCEPT !.socket = "open", !.running = TRUE]

\* number of entries of m_lapData decoded by PacketLapData.from_bytes
\* (0 stands for the None it returns on a short payload)
LapDataCount(payload_len) ==
  IF payload_len < LAP_DATA_SIZE * NUM_CARS THEN 0 ELSE NUM_CARS

\* number of per-car entries decoded for the pass-through packet types
\* (0 stands for a failed parse); the session packet has no per-car list
PassThroughCount(packet_id, payload_len) ==
  CASE packet_id = PACKET_ID_CAR_TELEMETRY ->
         IF payload_len < TELEMETRY_DATA_SIZE * NUM_CARS THEN 0 ELSE NUM_CARS
    [] packet_id = PACKET_ID_CAR_STATUS ->
         IF payload_len < CAR_STATUS_SIZE * NUM_CARS THEN 0 ELSE NUM_CARS
    [] packet_id = PACKET_ID_CAR_DAMAGE ->
         IF payload_len < CAR_DAMAGE_SIZE * NUM_CARS THEN 0 ELSE NUM_CARS
    [] OTHER -> 0

\* session change detection at the head of _handle_lap_data
SessionCheck(st, uid) ==
  IF st.current_session_uid = None
    THEN [st EXCEPT !.current_session_uid = uid]
    ELSE IF st.current_session_uid # uid
      THEN [st EXCEPT !.current_session_uid = uid,
                      !.current_lap_num = 0,
                      !.lap_just_completed = FALSE,
                      !.last_lap_time_ms = 0,
                      !.validated_last_lap_time = None]
      ELSE st


\* the position check with a 0-based lower bound
PositionValidZeroBased(position) ==
  ~(position < 0 \/ position > MAX_POSITION)

PositionValid(position) == ~(position < 1 \/ position > MAX_POSITION)

LapNumValid(lap_num) == ~(lap_num > MAX_LAP_NUM \/ lap_num < 0)


LapTimesValid(last_lap_time, current_lap_time) ==
  ~(last_lap_time > MAX_LAP_TIME_MS \/ current_lap_time > MAX_LAP_TIME_MS)

RangeValid(d) ==
  /\ PositionValid(d.carPosition)
  /\ LapNumValid(d.currentLapNum)
  /\ LapTimesValid(d.lastLapTimeInMS, d.currentLapTimeInMS)


\* the test without the guard against the first lap
LapIncreasedUnguarded(st, lap_num) == lap_num > st.current_lap_num

\* "lap number increased" test
LapIncreased(st, lap_num) ==
  lap_num > st.current_lap_num /\ st.current_lap_num > 0


\* the detection that stores the lap number only when it fires or when no
\* lap is stored yet
DetectCompletionKeepingHighest(st, lap_num, last_lap_time) ==
  IF LapIncreased(st, lap_num)
    THEN [st EXCEPT !.lap_just_completed = TRUE,
                    !.last_lap_time_ms = last_lap_time,
                    !.current_lap_num = lap_num]
    ELSE IF st.current_lap_num = 0
           THEN [st EXCEPT !.current_lap_num = lap_num]
           ELSE st

\* the detection that keeps the lap time captured at the previous completion
DetectCompletionStaleTime(st, lap_num, last_lap_time) ==
  LET s == IF LapIncreased(st, lap_num)
             THEN [st EXCEPT !.lap_just_completed = TRUE]
             ELSE st
  IN [s EXCEPT !.current_lap_num = lap_num]

\* lap completion detection followed by the update of current_lap_num
DetectCompletion(st, lap_num, last_lap_time) ==
  LET s == IF LapIncreased(st, lap_num)
             THEN [st EXCEPT !.lap_just_completed = TRUE,
                             !.last_lap_time_ms = last_lap_time]
             ELSE st
  IN [s EXCEPT !.current_lap_num = lap_num]


\* the storage that clears the validated time on every poll without a
\* completion
StoreValidatedClearing(st) ==
  IF st.lap_just_completed /\ st.last_lap_time_ms > 0
    THEN IF MIN_COMPLETED_LAP_MS <= st.last_lap_time_ms
            /\ st.last_lap_time_ms <= MAX_COMPLETED_LAP_MS
           THEN [st EXCEPT !.validated_last_lap_time = st.last_lap_time_ms]
           ELSE [st EXCEPT !.validated_last_lap_time = None]
    ELSE [st EXCEPT !.validated_last_lap_time = None]

\* validation and storage of the completed lap time
StoreValidated(st) ==
  IF st.lap_just_completed /\ st.last_lap_time_ms > 0
    THEN IF MIN_COMPLETED_LAP_MS <= st.last_lap_time_ms
            /\ st.last_lap_time_ms <= MAX_COMPLETED_LAP_MS
           THEN [st EXCEPT !.validated_last_lap_time = st.last_lap_time_ms]
           ELSE [st EXCEPT !.validated_last_lap_time = None]
    ELSE st

\* Python's "x or 0" on the optional validated lap time
OrZero(x) == IF x = None \/ x = 0 THEN 0 ELSE x

\* the dict passed to _send_callback by _handle_lap_data (fields copied
\* unchanged from the wire other than those below are left out)
LapEvent(st, d) ==
  [packetId |-> PACKET_ID_LAP_DATA,
   sessionUID |-> d.sessionUID,
   playerCarIndex |-> d.playerCarIndex,
   lastLapTimeInMS |-> OrZero(st.validated_last_lap_time),
   currentLapTimeInMS |-> d.currentLapTimeInMS,
   currentLapNum |-> d.currentLapNum,
   position |-> d.carPosition,
   lapCompleted |-> st.lap_just_completed]

\* _handle_lap_data up to the call of _send_callback
HandleLapData(st, d) ==
  LET n == LapDataCount(d.len - HEADER_SIZE) IN
  IF n = 0 \/ d.playerCarIndex >= n
    THEN [st |-> st, ev |-> NoEvent]
    ELSE LET s1 == SessionCheck(st, d.sessionUID) IN
         IF ~RangeValid(d)
           THEN [st |-> s1, ev |-> NoEvent]
           ELSE LET s2 == DetectCompletion(s1, d.currentLapNum,
                                           d.lastLapTimeInMS)
                    s3 == StoreValidated(s2)
                IN [st |-> s3, ev |-> LapEvent(s3, d)]

\* the dict passed to _send_callback by the handlers that keep no lap state
PassThroughEvent(d) ==
  [packetId |-> d.packetId, sessionUID |-> d.sessionUID]

\* _handle_car_telemetry, _handle_car_status, _handle_car_damage
HandlePerCar(st, d) ==
  LET n == PassThroughCount(d.packetId, d.len - HEADER_SIZE) IN
  IF n = 0 \/ ~(d.playerCarIndex < n)
    THEN [st |-> st, ev |-> NoEvent]
    ELSE [st |-> st, ev |-> PassThroughEvent(d)]

\* _handle_session
HandleSession(st, d) ==
  IF d.len - HEADER_SIZE < SESSION_MIN_SIZE
    THEN [st |-> st, ev |-> NoEvent]
    ELSE [st |-> st, ev |-> PassThroughEvent(d)]

\* _handle_motion with parse_motion_packet
HandleMotion(st, d) ==
  IF d.playerCarIndex * MOTION_DATA_SIZE + MOTION_POSITION_SIZE
       <= d.len - HEADER_SIZE
    THEN [st |-> st, ev |-> PassThroughEvent(d)]
    ELSE [st |-> st, ev |-> NoEvent]

\* _process_packet: self.last_packet_time = time.time() for a datagram whose
\* header decodes
StampPacket(st, d, t) ==
  IF d.len < HEADER_SIZE THEN st ELSE [st EXCEPT !.last_packet_time = t]

\* F1TelemetryReceiverMulti.is_active at clock reading t
is_active(st, t) ==
  IF st.last_packet_time = None THEN FALSE
  ELSE t - st.last_packet_time < ACTIVE_WINDOW

\* _process_packet: header check, packet_count, routing
ProcessPacket(st, d) ==
  IF d.len < HEADER_SIZE
    THEN [st |-> st, ev |-> NoEvent]
    ELSE LET s0 == [st EXCEPT !.packet_count = @ + 1] IN
         CASE d.packetId = PACKET_ID_MOTION -> HandleMotion(s0, d)
           [] d.packetId = PACKET_ID_LAP_DATA -> HandleLapData(s0, d)
           [] d.packetId \in {PACKET_ID_CAR_TELEMETRY, PACKET_ID_CAR_STATUS,
                              PACKET_ID_CAR_DAMAGE} -> HandlePerCar(s0, d)
           [] d.packetId = PACKET_ID_SESSION -> HandleSession(s0, d)
           [] OTHER -> [st |-> s0, ev |-> NoEvent]

\* the loop of run() when a datagram without an event ends it
AfterPacketLeaving(ev) == IF ev # NoEvent THEN "callback" ELSE "done"

\* where the thread of run() is after _process_packet has handled a
\* datagram: in _send_callback when the handler built an event, back at
\* recvfrom when the datagram was dropped, whether by a return or by an
\* exception that _process_packet or the loop catches
AfterPacket(ev) == IF ev # NoEvent THEN "callback" ELSE "recv"

\* the reset of the one-shot flag after _send_callback has returned
ResetFlag(st) ==
  IF st.lap_just_completed THEN [st EXCEPT !.lap_just_completed = FALSE]
                           ELSE st


\* the write when the lap tracking attributes are shared by all receivers
SelfStateShared(rs, r, new) == [x \in DOMAIN rs |-> new]

\* a write of receiver r to its own instance attributes
SelfState(rs, r, new) == [rs EXCEPT ![r] = new]

(***************************************************************************)
(* TelemetryGateway                                                        *)
(***************************************************************************)
\* one entry of TelemetryGateway.stats as built by __init__
NewStats ==
  [packets_received |-> 0, last_packet_time |-> None, active |-> FALSE,
   current_session |-> None]

\* Python truthiness of packet_data.get('sessionUID')
Truthy(x) == x # None /\ x # 0


\* the increment of one counter shared by all rigs
CountPacketShared(st, rig_id) ==
  [x \in DOMAIN st |-> [st[x] EXCEPT !.packets_received = @ + 1]]

\* self.stats[rig_id]['packets_received'] += 1
CountPacket(st, rig_id) ==
  [st EXCEPT ![rig_id].packets_received = @ + 1]

\* self.stats[rig_id]['last_packet_time'] = time.time()
StampStats(st, rig_id, t) == [st EXCEPT ![rig_id].last_packet_time = t]

\* the enriched packet built by _on_packet_received (timestamps left out)
Enrich(packet_data, rig_id, rig_config) ==
  Merge(packet_data,
        [rig_id |-> rig_id,
         device_id |-> rig_config.device_id,
         driver_name |-> rig_config.driver_name,
         individual_id |-> rig_config.individual_id,
         source_type |-> "f1_25"])

\* active session tracking of _on_packet_received
TrackSession(sessions, session_uid, rig_id) ==
  IF Truthy(session_uid) /\ session_uid \notin DOMAIN sessions
    THEN [u \in DOMAIN sessions \cup {session_uid} |->
            IF u = session_uid THEN rig_id ELSE sessions[u]]
    ELSE sessions

\* self.stats[rig_id]['current_session'] = session_uid
TrackCurrent(st, session_uid, rig_id) ==
  IF Truthy(session_uid)
    THEN [st EXCEPT ![rig_id].current_session = session_uid]
    ELSE st

\* TelemetryGateway.is_rig_active
is_rig_active(rig_id) ==
  IF rig_id \notin DOMAIN stats \/ stats[rig_id].last_packet_time = None
    THEN FALSE
    ELSE now - stats[rig_id].last_packet_time < ACTIVE_WINDOW

\* TelemetryGateway.get_status
get_status ==
  [running |-> running,
   active_sessions |-> Cardinality(DOMAIN active_sessions),
   total_rigs |-> Len(rigs),
   rigs |-> [r \in DOMAIN stats |->
               [packets_received |-> stats[r].packets_received,
                last_packet_time |-> stats[r].last_packet_time,
                last_packet_age_seconds |->
                  IF stats[r].last_packet_time # None
                    THEN now - stats[r].last_packet_time ELSE None,
                active |-> stats[r].active /\ r \in registered,
                current_session |-> stats[r].current_session,
                thread_alive |-> /\ r \in receiver_threads
                                 /\ pc[r] \notin {"idle", "done"}]]]

(***************************************************************************)
(* Datagrams                                                               *)
(***************************************************************************)
SessionUIDs == {0, 1}

\* total length of a datagram whose payload has exactly the size the
\* decoder of packet type id requires
FullLen(id) ==
  HEADER_SIZE +
  (CASE id = PACKET_ID_LAP_DATA -> LAP_DATA_SIZE * NUM_CARS
     [] id = PACKET_ID_CAR_TELEMETRY -> TELEMETRY_DATA_SIZE * NUM_CARS
     [] id = PACKET_ID_CAR_STATUS -> CAR_STATUS_SIZE * NUM_CARS
     [] id = PACKET_ID_CAR_DAMAGE -> CAR_DAMAGE_SIZE * NUM_CARS
     [] id = PACKET_ID_SESSION -> SESSION_MIN_SIZE
     [] id = PACKET_ID_MOTION -> MOTION_DATA_SIZE * NUM_CARS
     [] OTHER -> 0)

\* a datagram of a type other than lap data
Plain(len, id, uid, idx) == Datagram(len, id, uid, idx, 0, 0, 0, 0)

\* datagrams that are too short for a header, of a type that is not decoded,
\* with a truncated payload, or with a player index beyond the car list
Undecodable ==
  { Plain(HEADER_SIZE - 1, PACKET_ID_LAP_DATA, 1, 0),
    Plain(HEADER_SIZE, PACKET_ID_EVENT, 1, 0),
    Plain(FullLen(PACKET_ID_LAP_DATA) - 1, PACKET_ID_LAP_DATA, 1, 0),
    Plain(FullLen(PACKET_ID_LAP_DATA), PACKET_ID_LAP_DATA, 1, 255),
    Plain(FullLen(PACKET_ID_CAR_TELEMETRY) - 1, PACKET_ID_CAR_TELEMETRY, 1, 0),
    Plain(FullLen(PACKET_ID_CAR_TELEMETRY), PACKET_ID_CAR_TELEMETRY, 1, 255),
    Plain(FullLen(PACKET_ID_SESSION) - 1, PACKET_ID_SESSION, 1, 0),
    Plain(FullLen(PACKET_ID_MOTION), PACKET_ID_MOTION, 1, 255) }

\* well-formed datagrams of the types that keep no lap state
PassThrough ==
  { Plain(FullLen(id), id, uid, 0) :
      id \in {PACKET_ID_MOTION, PACKET_ID_SESSION, PACKET_ID_CAR_TELEMETRY,
              PACKET_ID_CAR_STATUS, PACKET_ID_CAR_DAMAGE},
      uid \in {1} }
  \cup { Plain(FullLen(PACKET_ID_CAR_TELEMETRY), PACKET_ID_CAR_TELEMETRY,
               0, 0) }

\* a lap data datagram of full length for player car 0
Lap(uid, pos, lap, last, cur) ==
  Datagram(FullLen(PACKET_ID_LAP_DATA), PACKET_ID_LAP_DATA, uid, 0,
           pos, lap, last, cur)

\* lap data datagrams that pass the range checks
LapValidSM ==
  { Lap(uid, 1, lap, last, 1000) :
      uid \in SessionUIDs, lap \in {0, 3, 4, 5},
      last \in {0, 29999, 91234, 600001} }
  \cup { Lap(1, 22, 4, 30000, 7200000), Lap(1, 22, 5, 600000, 7200000) }

\* lap data datagrams that fail one of the range checks
LapInvalidSM ==
  { Lap(uid, 255, 4, 91234, 1000) : uid \in SessionUIDs }
  \cup { Lap(1, 0, 4, 91234, 1000), Lap(1, 23, 4, 91234, 1000),
         Lap(1, 1, 201, 91234, 1000), Lap(1, 1, 4, 7200001, 1000),
         Lap(1, 1, 4, 91234, 7200001) }

\* lap data datagrams fed to the single rig of the state-machine
\* specification
LapFeedSM == LapValidSM \cup LapInvalidSM

FeedSM == LapFeedSM \cup PassThrough \cup Undecodable

\* datagrams sent to the ports of the two-rig specification
FeedGW ==
  { Lap(uid, 1, lap, 91234, 1000) : uid \in SessionUIDs, lap \in {3, 4} }
  \cup { Lap(1, 255, 4, 91234, 1000),
         Plain(FullLen(PACKET_ID_CAR_TELEMETRY), PACKET_ID_CAR_TELEMETRY,
               1, 0),
         Plain(HEADER_SIZE - 1, PACKET_ID_LAP_DATA, 1, 0),
         Plain(HEADER_SIZE, PACKET_ID_EVENT, 1, 0) }

\* the rig fed in the state-machine specification
FedRig == rigs[1].rig_id

(***************************************************************************)
(* WebSocketPublisher                                                      *)
(***************************************************************************)
\* the connected dashboard client
Clients == {"c1"}

\* the rig the client asks for by name
WatchedRig == rigs[1].rig_id

\* the room every rig's update is also published to
ALL == "all"

\* the rooms of the dashboard namespace
Rooms == RigIds \cup {ALL}

\* no dictionary iterator
NoIterator == [used |-> None, pos |-> 0]

\* WebSocketPublisher.__init__ with the given clients connected, none
\* having subscribed yet
PublisherWith(clients) ==
  /\ aggregated_state = << >>
  /\ rooms = [m \in Rooms |-> {}]
  /\ inbox = [c \in clients |-> << >>]
  /\ pubPc = [r \in RigIds |-> "idle"]
  /\ subPc = [c \in clients |-> "idle"]
  /\ subArg = [c \in clients |-> ALL]
  /\ subPayload = [c \in clients |-> << >>]
  /\ subSeq = [c \in clients |-> 0]
  /\ merged = [r \in RigIds |-> << >>]
  /\ emissions = [r \in RigIds |-> [own |-> 0, all |-> 0]]
  /\ joinedAt = [c \in clients |-> None]
  /\ unsubscribed = [c \in clients |-> {}]
  /\ key_order = << >>
  /\ requests = [c \in clients |-> 0]
  /\ mergePacket = [r \in RigIds |-> NoEvent]
  /\ mergeLeft = [r \in RigIds |-> << >>]
  /\ iter = [c \in clients |-> NoIterator]
  /\ failed = {}
  /\ blocked = {}
  /\ received = [c \in clients |-> 0]

\* WebSocketPublisher.__init__, no client having subscribed yet
PublisherInit == PublisherWith(Clients)

\* self.aggregated_state[rig_id] of a defaultdict(dict), as read
StateOf(states, rig_id) ==
  IF rig_id \in DOMAIN states THEN states[rig_id] ELSE << >>

\* the snapshot when every event replaces the state of its rig
MergeSnapshotReplacing(current_state, packet_data, rig_id) ==
  Merge(packet_data, [rig_id |-> rig_id])

\* the per-key overlay of on_telemetry_packet, stamped with the rig (the
\* wall-clock last_update is not modelled)
MergeSnapshot(current_state, packet_data, rig_id) ==
  Merge(Merge(current_state, packet_data), [rig_id |-> rig_id])

\* the store that keeps only the snapshot just merged
StoreSnapshotAlone(states, rig_id, snapshot) ==
  [x \in {rig_id} |-> snapshot]

\* the store when all rigs share one snapshot dictionary
StoreSnapshotShared(states, rig_id, snapshot) ==
  [x \in DOMAIN states \cup {rig_id} |-> snapshot]

\* aggregated_state after the merged snapshot of rig_id has been stored
StoreSnapshot(states, rig_id, snapshot) ==
  [x \in DOMAIN states \cup {rig_id} |->
     IF x = rig_id THEN snapshot ELSE states[x]]

\* a telemetry_update message; kind and room record which emit produced
\* it, seq how many events of the rig had been merged by then
Message(kind, room, seq, data) ==
  [kind |-> kind, room |-> room, seq |-> seq, data |-> data]

\* the emit when a new message overtakes the ones already queued
EmitRoomOvertaking(boxes, members, msg) ==
  [c \in DOMAIN boxes |->
     IF c \in members THEN << msg >> \o boxes[c] ELSE boxes[c]]

\* socketio.emit(..., room=room): the message is queued, in order, for
\* every client that is in the room at that moment
EmitRoom(boxes, members, msg) ==
  [c \in DOMAIN boxes |->
     IF c \in members THEN Append(boxes[c], msg) ELSE boxes[c]]

\* emit(...) inside a handler: the message goes to the calling client
EmitCaller(boxes, c, msg) == [boxes EXCEPT ![c] = Append(@, msg)]

\* join_room(room) called by the handler of client c
JoinRoom(rs, c, room) == [rs EXCEPT ![room] = @ \cup {c}]

\* the handler when it leaves the client in the room
LeaveRoomKeeping(rs, c, room) == rs

\* leave_room(room) called by the handler of client c
LeaveRoom(rs, c, room) == [rs EXCEPT ![room] = @ \ {c}]

\* {'rig_id': rig_id, **state}
ReplayPayload(rig_id, state) == Merge([rig_id |-> rig_id], state)

\* the datagrams whose events reach the publisher
PubDatagrams ==
  { Lap(1, 1, 3, 91234, 1000),
    Plain(FullLen(PACKET_ID_CAR_TELEMETRY), PACKET_ID_CAR_TELEMETRY, 1, 0) }

\* the enriched events the gateway hands to event_callback for rig r once
\* start() has returned
PubFeed(r) ==
  { Enrich(ProcessPacket(Bound(NewReceiver), d).ev, r, rigs[Len(rigs)]) :
      d \in PubDatagrams }

(***************************************************************************)
(* Decoders (receiver.py and parse_motion_packet)                          *)
(***************************************************************************)
\* size in bytes of a struct format code in standard ('<') mode
CodeSize(c) ==
  CASE c = "Q" -> 8
    [] c = "I" -> 4
    [] c = "H" -> 2
    [] c = "B" -> 1
    [] c = "b" -> 1
    [] c = "f" -> 4

\* PacketHeader.HEADER_FORMAT: "<HBBBBBQfIIBB"
HEADER_FORMAT ==
  << "H", "B", "B", "B", "B", "B", "Q", "f", "I", "I", "B", "B" >>

\* session_format of PacketSessionData.from_bytes: "<BbbBHBb"
SESSION_FORMAT == << "B", "b", "b", "B", "H", "B", "b" >>

\* the format parse_motion_packet unpacks the world position with: '<fff'
MOTION_POSITION_FORMAT == << "f", "f", "f" >>

\* LapData.LAP_DATA_FORMAT_NO_FASTEST_LAP, the format from_bytes unpacks
\* with: "<IIHBHBHBHBfffBBBBBBBBBBBBBBHHBf"
LAP_DATA_FORMAT_NO_FASTEST_LAP ==
  << "I", "I", "H", "B", "H", "B", "H", "B", "H", "B", "f", "f", "f",
     "B", "B", "B", "B", "B", "B", "B", "B", "B", "B", "B", "B", "B", "B",
     "H", "H", "B", "f" >>

\* struct.calcsize
RECURSIVE CalcSize(_)
CalcSize(format) ==
  IF format = << >> THEN 0
  ELSE CodeSize(Head(format)) + CalcSize(Tail(format))

\* the fields of the dataclass LapData in declaration order
LapDataFields ==
  << "m_lastLapTimeInMS", "m_currentLapTimeInMS", "m_sector1TimeMSPart",
     "m_sector1TimeMinutesPart", "m_sector2TimeMSPart",
     "m_sector2TimeMinutesPart", "m_deltaToCarInFrontMSPart",
     "m_deltaToCarInFrontMinutesPart", "m_deltaToRaceLeaderMSPart",
     "m_deltaToRaceLeaderMinutesPart", "m_lapDistance", "m_totalDistance",
     "m_safetyCarDelta", "m_carPosition", "m_currentLapNum", "m_pitStatus",
     "m_numPitStops", "m_sector", "m_currentLapInvalid", "m_penalties",
     "m_totalWarnings", "m_cornerCuttingWarnings",
     "m_numUnservedDriveThroughPens", "m_numUnservedStopGoPens",
     "m_gridPosition", "m_driverStatus", "m_resultStatus",
     "m_pitLaneTimerActive", "m_pitLaneTimeInLaneInMS",
     "m_pitStopTimerInMS", "m_pitStopShouldServePen",
     "m_speedTrapFastestSpeed", "m_speedTrapFastestLap" >>

\* the fields the format carries, each code of the format taken with the
\* field of that type in the dataclass: fourteen uint8 codes follow the
\* three floats, then come the two uint16 pit timers, the uint8
\* m_pitStopShouldServePen and the float m_speedTrapFastestSpeed
WireFields ==
  SubSeq(LapDataFields, 1, 27)
    \o << "m_pitLaneTimeInLaneInMS", "m_pitStopTimerInMS",
          "m_pitStopShouldServePen", "m_speedTrapFastestSpeed" >>

\* the little-endian bytes of v in n bytes (a float is modelled by the
\* integer its four bytes spell)
RECURSIVE ToBytes(_, _)
ToBytes(v, n) ==
  IF n = 0 THEN << >> ELSE << v % 256 >> \o ToBytes(v \div 256, n - 1)

\* the value little-endian bytes spell
RECURSIVE FromBytes(_)
FromBytes(bs) ==
  IF bs = << >> THEN 0 ELSE Head(bs) + 256 * FromBytes(Tail(bs))

\* struct.pack(format, *values)
RECURSIVE Pack(_, _)
Pack(format, values) ==
  IF format = << >> THEN << >>
  ELSE ToBytes(Head(values), CodeSize(Head(format)))
         \o Pack(Tail(format), Tail(values))

\* the values struct.unpack reads code by code
RECURSIVE UnpackFrom(_, _)
UnpackFrom(format, bytes) ==
  IF format = << >> THEN << >>
  ELSE LET n == CodeSize(Head(format))
           v == FromBytes(SubSeq(bytes, 1, n))
       IN << IF Head(format) = "b" /\ v >= 128 THEN v - 256 ELSE v >>
            \o UnpackFrom(Tail(format), SubSeq(bytes, n + 1, Len(bytes)))

\* struct.unpack(format, bytes): struct.error unless the buffer has exactly
\* the size of the format
Unpack(format, bytes) ==
  IF Len(bytes) # CalcSize(format)
    THEN [ok |-> FALSE, tuple |-> << >>]
    ELSE [ok |-> TRUE, tuple |-> UnpackFrom(format, bytes)]

\* Python's bytes[start:end], clipped to the slice
Slice(bytes, start, end) ==
  SubSeq(bytes, start + 1, IF end > Len(bytes) THEN Len(bytes) ELSE end)

\* expected_fields of PacketLapData.from_bytes
EXPECTED_FIELDS == 32

\* the completion that puts the defaults in front of the unpacked values
CompleteTupleLeading(lap_tuple) ==
  LET n == Len(lap_tuple) IN
  CASE n = EXPECTED_FIELDS -> [ok |-> TRUE, tuple |-> << 0 >> \o lap_tuple]
    [] n = EXPECTED_FIELDS + 1 -> [ok |-> TRUE, tuple |-> lap_tuple]
    [] n = EXPECTED_FIELDS - 1 ->
         [ok |-> TRUE, tuple |-> << 0, 0 >> \o lap_tuple]
    [] n = EXPECTED_FIELDS - 2 ->
         [ok |-> TRUE, tuple |-> << 0, 0, 0 >> \o lap_tuple]
    [] OTHER -> [ok |-> FALSE, tuple |-> << >>]

\* the if/elif chain of from_bytes on the length of the unpacked tuple: the
\* positional arguments LapData is built from, or the skip of the car
CompleteTuple(lap_tuple) ==
  LET n == Len(lap_tuple) IN
  CASE n = EXPECTED_FIELDS -> [ok |-> TRUE, tuple |-> lap_tuple \o << 0 >>]
    [] n = EXPECTED_FIELDS + 1 -> [ok |-> TRUE, tuple |-> lap_tuple]
    [] n = EXPECTED_FIELDS - 1 ->
         [ok |-> TRUE, tuple |-> lap_tuple \o << 0, 0 >>]
    [] n = EXPECTED_FIELDS - 2 ->
         [ok |-> TRUE, tuple |-> lap_tuple \o << 0, 0, 0 >>]
    [] OTHER -> [ok |-> FALSE, tuple |-> << >>]

\* LapData(*args): the positional arguments bound to the fields in
\* declaration order
LapData(args) ==
  [f \in { LapDataFields[k] : k \in 1..Len(args) } |->
     args[CHOOSE k \in 1..Len(args) : LapDataFields[k] = f]]

\* the start of the chunk of car i when the cars are laid out from the end
ChunkStartReversed(i) == (NUM_CARS - 1 - i) * LAP_DATA_SIZE

\* start = i * LapData.SIZE
ChunkStart(i) == i * LAP_DATA_SIZE

\* the loop of PacketLapData.from_bytes from car i on: a car whose chunk
\* cannot be unpacked or completed is skipped, nothing being appended
RECURSIVE DecodeCars(_, _, _)
DecodeCars(lap_data_bytes, i, m_lapData) ==
  IF i = NUM_CARS THEN m_lapData
  ELSE
    LET start == ChunkStart(i)
        end == start + LAP_DATA_SIZE
        current_chunk == Slice(lap_data_bytes, start, end)
        unpacked == Unpack(LAP_DATA_FORMAT_NO_FASTEST_LAP, current_chunk)
        completed == CompleteTuple(unpacked.tuple)
    IN IF end > Len(lap_data_bytes) THEN m_lapData
       ELSE IF Len(current_chunk) # LAP_DATA_SIZE \/ ~unpacked.ok
                 \/ ~completed.ok
         THEN DecodeCars(lap_data_bytes, i + 1, m_lapData)
         ELSE DecodeCars(lap_data_bytes, i + 1,
                         Append(m_lapData, LapData(completed.tuple)))

\* the length test of PacketLapData.from_bytes
LapDataTooShort(len) == len < LAP_DATA_SIZE * NUM_CARS

\* what a decoder returns: ok is FALSE for None, raised is TRUE when an
\* exception leaves the decoder, entries holds the per-car records
Failure == [ok |-> FALSE, raised |-> FALSE, entries |-> << >>]

\* PacketLapData.from_bytes
PacketLapData_from_bytes(data) ==
  LET required_lap_data_size == LAP_DATA_SIZE * NUM_CARS
      lap_data_bytes == IF Len(data) >= required_lap_data_size + 2
                          THEN Slice(data, 0, required_lap_data_size)
                          ELSE data
  IN IF Len(data) < required_lap_data_size + 2 /\ LapDataTooShort(Len(data))
       THEN Failure
       ELSE [ok |-> TRUE, raised |-> FALSE,
             entries |-> DecodeCars(lap_data_bytes, 0, << >>)]

\* an exception leaves the decoder
Raised == [ok |-> FALSE, raised |-> TRUE, entries |-> << >>]

\* a decoder returns the record built from an unpacked tuple
Decoded(tuple) == [ok |-> TRUE, raised |-> FALSE, entries |-> << tuple >>]

\* PacketHeader.from_bytes: a struct.error is caught and gives None
PacketHeader_from_bytes(data) ==
  IF Len(data) < HEADER_SIZE THEN Failure
  ELSE LET unpacked == Unpack(HEADER_FORMAT, Slice(data, 0, HEADER_SIZE))
       IN IF unpacked.ok THEN Decoded(unpacked.tuple) ELSE Failure

\* PacketCarTelemetry, PacketCarStatus and PacketCarDamage.from_bytes on a
\* payload of len bytes (the entries are counted, not decoded)
PerCar_from_bytes(packet_id, len) ==
  IF PassThroughCount(packet_id, len) = 0 THEN Failure
  ELSE [ok |-> TRUE, raised |-> FALSE,
        entries |-> [i \in 1..PassThroughCount(packet_id, len) |-> i - 1]]

\* PacketSessionData.from_bytes: a struct.error is caught and gives None
PacketSessionData_from_bytes(data) ==
  IF Len(data) < SESSION_MIN_SIZE THEN Failure
  ELSE LET unpacked == Unpack(SESSION_FORMAT,
                              Slice(data, 0, SESSION_MIN_SIZE))
       IN IF unpacked.ok THEN Decoded(unpacked.tuple) ELSE Failure

\* the test that only asks for the player's record to start in the payload
PositionInPayloadFromStart(offset, len) == offset <= len

\* offset + 12 <= len(payload)
PositionInPayload(offset, len) == offset + MOTION_POSITION_SIZE <= len

\* parse_motion_packet: nothing catches a struct.error of its unpack
parse_motion_packet(payload, player_index) ==
  LET offset == player_index * MOTION_DATA_SIZE
      unpacked == Unpack(MOTION_POSITION_FORMAT,
                         Slice(payload, offset,
                               offset + MOTION_POSITION_SIZE))
  IN IF PositionInPayload(offset, Len(payload))
       THEN IF unpacked.ok THEN Decoded(unpacked.tuple) ELSE Raised
       ELSE Failure

\* the first len bytes a game sends for a record whose fields are not
\* modelled one by one (every field value stays below 2^31)
Payload(len) ==
  [p \in 1..len |-> IF p % 8 < 3 THEN (3 * p) % 128 ELSE 0]

\* the value the game writes for field k of car car_index in a lap record
\* of the given seed: neighbouring fields differ, and the fields wider than
\* a byte hold values that need more than one byte
WireValue(k, car_index, seed) ==
  ((7 * k + 40 * car_index + seed) % 251)
    + (IF LAP_DATA_FORMAT_NO_FASTEST_LAP[k] = "B" THEN 0 ELSE 1000)

\* the values of car car_index in wire order
WireValues(car_index, seed) ==
  [k \in 1..Len(LAP_DATA_FORMAT_NO_FASTEST_LAP) |->
     WireValue(k, car_index, seed)]

\* the lap record of car car_index as the game holds it
WireRecord(car_index, seed) ==
  [f \in { WireFields[k] : k \in 1..Len(WireFields) } |->
     WireValue(CHOOSE k \in 1..Len(WireFields) : WireFields[k] = f,
               car_index, seed)]

\* the first len bytes of a lap data payload: the records of the cars one
\* after the other, then zero bytes
LapPayload(len, seed) ==
  LET chunks == [c \in 0..(NUM_CARS - 1) |->
                   Pack(LAP_DATA_FORMAT_NO_FASTEST_LAP, WireValues(c, seed))]
  IN [p \in 1..len |->
        IF p <= LAP_DATA_SIZE * NUM_CARS
          THEN chunks[(p - 1) \div LAP_DATA_SIZE]
                     [((p - 1) % LAP_DATA_SIZE) + 1]
          ELSE 0]

\* the smallest slice the decoder of a record type accepts
MinSize(kind, player_index) ==
  CASE kind = "header" -> HEADER_SIZE
    [] kind = "lap" -> LAP_DATA_SIZE * NUM_CARS
    [] kind = "telemetry" -> TELEMETRY_DATA_SIZE * NUM_CARS
    [] kind = "status" -> CAR_STATUS_SIZE * NUM_CARS
    [] kind = "damage" -> CAR_DAMAGE_SIZE * NUM_CARS
    [] kind = "session" -> SESSION_MIN_SIZE
    [] kind = "motion" -> player_index * MOTION_DATA_SIZE
                            + MOTION_POSITION_SIZE

\* the lengths tried for a record type: the empty slice and the lengths
\* within MaxSlack bytes of the smallest accepted one
Lengths(kind, player_index) ==
  {0} \cup { MinSize(kind, player_index) + x : x \in (0 - MaxSlack)..MaxSlack }

\* the slices handed to the decoders
Slices ==
  UNION { { [kind |-> kind, len |-> len, seed |-> 0, player_index |-> 0] :
              len \in Lengths(kind, 0) } :
          kind \in {"header", "telemetry", "status", "damage", "session"} }
  \cup UNION { { [kind |-> "motion", len |-> len, seed |-> 0,
                  player_index |-> idx] : len \in Lengths("motion", idx) } :
               idx \in {0, 1, NUM_CARS - 1} }
  \cup { [kind |-> "lap", len |-> len, seed |-> seed, player_index |-> idx] :
           len \in Lengths("lap", 0), seed \in 1..MaxSeed,
           idx \in {0, 1, NUM_CARS - 1} }

\* no slice is being decoded
NoSlice == [kind |-> "none", len |-> 0, seed |-> 0, player_index |-> 0]

\* no decoder has returned
NotDecoded == [ok |-> FALSE, raised |-> FALSE, entries |-> << >>,
               done |-> FALSE]

\* the decoders are not exercised on their own
DecoderIdle == wire = NoSlice /\ decoded = NotDecoded

\* the result r of a decoder, recorded
Returned(r) ==
  [ok |-> r.ok, raised |-> r.raised, entries |-> r.entries, done |-> TRUE]

(***************************************************************************)
(* TelemetryBridge (receiver.py)                                           *)
(***************************************************************************)
\* the header index that run() reads as "spectator"
SPECTATOR_INDEX == 255

\* self.latest_header before a datagram has been processed
NoHeader == [packetId |-> None, playerCarIndex |-> None]

\* the state attributes set by TelemetryBridge.__init__
NewBridge ==
  [player_car_index |-> -1,
   packets_received |-> 0,
   latest_header |-> NoHeader,
   latest_lap_data |-> None,
   latest_telemetry |-> None,
   latest_car_status |-> None,
   latest_car_damage |-> None,
   current_lap_num |-> 0,
   lap_just_completed |-> FALSE,
   last_lap_time_ms |-> 0]

\* run(): the player index is taken from the first header that does not
\* carry the spectator index, and kept from then on
StorePlayerIndex(b, d) ==
  IF b.player_car_index = -1 /\ d.playerCarIndex # SPECTATOR_INDEX
    THEN [b EXCEPT !.player_car_index = d.playerCarIndex]
    ELSE b

\* run(): the test that lets a datagram reach the packet handlers
IndexKnown(b) == 0 <= b.player_car_index /\ b.player_car_index < NUM_CARS

\* number of entries of m_lapData built by the bridge's
\* PacketLapData.from_bytes (0 stands for the None of a short payload)
BridgeLapDataCount(payload_len) ==
  IF payload_len < LAP_DATA_SIZE * NUM_CARS THEN 0 ELSE NUM_CARS

\* TelemetryBridge._handle_lap_data, which reads the slot of the stored
\* player index (d carries the lap fields of that slot; of the LapData
\* kept as latest_lap_data the current lap time stands for the record)
BridgeHandleLapData(b, d) ==
  LET n == BridgeLapDataCount(d.len - HEADER_SIZE) IN
  IF n = 0 \/ b.player_car_index = -1 \/ b.player_car_index >= n
    THEN b
    ELSE LET done == d.currentLapNum > b.current_lap_num
                       /\ b.current_lap_num > 0
         IN [b EXCEPT
               !.lap_just_completed = IF done THEN TRUE ELSE @,
               !.last_lap_time_ms = IF done THEN d.lastLapTimeInMS ELSE @,
               !.current_lap_num = d.currentLapNum,
               !.latest_lap_data = d.currentLapTimeInMS]

\* _handle_telemetry, _handle_car_status and _handle_damage: the record of
\* the player's slot is kept (1 stands for the record)
BridgeHandlePerCar(b, d) ==
  LET n == PassThroughCount(d.packetId, d.len - HEADER_SIZE) IN
  IF n = 0 \/ b.player_car_index = -1 \/ b.player_car_index >= n
    THEN b
    ELSE CASE d.packetId = PACKET_ID_CAR_TELEMETRY ->
                [b EXCEPT !.latest_telemetry = 1]
           [] d.packetId = PACKET_ID_CAR_STATUS ->
                [b EXCEPT !.latest_car_status = 1]
           [] d.packetId = PACKET_ID_CAR_DAMAGE ->
                [b EXCEPT !.latest_car_damage = 1]
           [] OTHER -> b

\* run(), step 2: one received datagram from the header check to the
\* packet handlers (event and session packets, which keep no lap state
\* other than through the session-start event, are not fed)
BridgeProcess(b, d) ==
  LET b0 == [b EXCEPT !.packets_received = @ + 1] IN
  IF d.len < HEADER_SIZE \/ d.packetFormat # PACKET_FORMAT_2024
    THEN b0
    ELSE LET b1 == StorePlayerIndex(b0, d) IN
         IF ~IndexKnown(b1)
           THEN b1
           ELSE LET b2 == [b1 EXCEPT !.latest_header =
                             [packetId |-> d.packetId,
                              playerCarIndex |-> d.playerCarIndex]]
                IN CASE d.packetId = PACKET_ID_LAP_DATA ->
                          BridgeHandleLapData(b2, d)
                     [] d.packetId \in {PACKET_ID_CAR_TELEMETRY,
                                        PACKET_ID_CAR_STATUS,
                                        PACKET_ID_CAR_DAMAGE} ->
                          BridgeHandlePerCar(b2, d)
                     [] OTHER -> b2

\* whether this step of the bridge detected a lap completion
CompletionDetected(b, d) ==
  /\ d.len >= HEADER_SIZE
  /\ d.packetFormat = PACKET_FORMAT_2024
  /\ d.packetId = PACKET_ID_LAP_DATA
  /\ IndexKnown(StorePlayerIndex(b, d))
  /\ BridgeLapDataCount(d.len - HEADER_SIZE) > 0
  /\ d.currentLapNum > b.current_lap_num
  /\ b.current_lap_num > 0

\* _prepare_payload: the payload sent while neither telemetry nor lap data
\* has been received
MinimalPayload == [connectionStatus |-> "waiting_for_data"]

\* no payload built yet
NoPayload == [connectionStatus |-> None]

\* _prepare_payload: whether every record the full payload reads is there
\* (a missing one raises AttributeError, which ends the task)
RecordsPresent(b) ==
  /\ b.latest_lap_data # None
  /\ b.latest_telemetry # None
  /\ b.latest_car_status # None
  /\ b.latest_car_damage # None

\* _prepare_payload: the lap fields of the full payload, built from the
\* flag read earlier and the attributes as they are now (lastLapTime is in
\* seconds with three decimals, written as a count of thousandths)
FullPayload(b, is_lap_complete) ==
  LET last_lap_time_ms ==
        IF is_lap_complete THEN b.last_lap_time_ms ELSE None
      final_lap_time_sec ==
        IF Truthy(last_lap_time_ms) /\ last_lap_time_ms > MAX_COMPLETED_LAP_MS
          THEN None
          ELSE IF Truthy(last_lap_time_ms) THEN last_lap_time_ms ELSE None
  IN [lapNumber |-> IF 1 <= b.current_lap_num
                         /\ b.current_lap_num <= MAX_LAP_NUM
                      THEN b.current_lap_num ELSE 1,
      lastLapTime |-> final_lap_time_sec,
      lapCompleted |-> is_lap_complete]

\* _send_http_sync after a 2xx answer: the flag is read and cleared
ClearAfterSend(b) ==
  IF b.lap_just_completed THEN [b EXCEPT !.lap_just_completed = FALSE]
                          ELSE b

\* a worker thread of the executor that runs no task
IdleWorker ==
  [pc |-> "idle", is_lap_complete |-> FALSE, payload |-> NoPayload]

\* the two worker threads of ThreadPoolExecutor(max_workers=2)
Workers == 1..2

BridgeInit ==
  /\ bridge = NewBridge
  /\ tasks = 0
  /\ workers = [w \in Workers |-> IdleWorker]
  /\ posted = << >>
  /\ completions = << >>
  /\ submits = 0

(***************************************************************************)
(* SessionService                                                          *)
(***************************************************************************)
\* the session ids of the rows that are created
SessionIds == {"s1", "s2"}

\* Rig_Number__c of the session created with that id
RigNumber(id) == IF id = "s1" THEN 1 ELSE 2

\* what get_by_id returns for an id that has no row
NoSession == [Session_Status__c |-> None]

\* the row inserted by create_waiting_session
WaitingSession(rig_number) ==
  [Rig_Number__c |-> rig_number,
   Session_Status__c |-> "Waiting",
   Session_Start_Time__c |-> None,
   Session_End_Time__c |-> None]

\* start_session on the row it loaded, at clock reading t
StartedSession(session, t) ==
  IF session.Session_Status__c = "Active"
    THEN session
    ELSE [session EXCEPT !.Session_Status__c = "Active",
                         !.Session_Start_Time__c = t]

\* complete_session on the row it loaded, at clock reading t
CompletedSession(session, t) ==
  [session EXCEPT !.Session_Status__c = "Completed",
                  !.Session_End_Time__c = t]

ServiceInit ==
  /\ Session__c = [id \in SessionIds |-> NoSession]
  /\ svc_active = << >>
  /\ calls = 0

(***************************************************************************)
(* Actions                                                                 *)
(***************************************************************************)
\* TelemetryGateway.__init__
Constructed ==
  /\ running = FALSE
  /\ startPc = "init"
  /\ rig = 0
  /\ receivers = << >>
  /\ receiver_threads = {}
  /\ stats = [r \in RigIds |-> NewStats]
  /\ active_sessions = << >>
  /\ pc = [r \in RigIds |-> "idle"]
  /\ pending = [r \in RigIds |-> NoEvent]
  /\ forwarded = [r \in RigIds |-> NoEvent]
  /\ arrived = [r \in RigIds |-> 0]
  /\ emitted = [r \in RigIds |-> 0]
  /\ actor = "main"
  /\ lastDatagram = NoDatagram
  /\ lastLapEvent = [r \in RigIds |-> NoEvent]
  /\ prevLapEvent = [r \in RigIds |-> NoEvent]
  /\ registered = {}
  /\ stops = 0
  /\ bind_failed = {}
  /\ callback_errors = [r \in RigIds |-> 0]
  /\ listeners = [r \in RigIds |-> << >>]
  /\ registry = [r \in RigIds |-> 0]
  /\ BridgeInit
  /\ ServiceInit
  /\ PublisherInit
  /\ now = StartTime

\* the gateway as built, no decoder being exercised on its own
Init == Constructed /\ DecoderIdle

\* TelemetryGateway.start up to its loop
Start ==
  /\ startPc = "init"
  /\ running' = TRUE
  /\ startPc' = "loop"
  /\ actor' = "main"
  /\ stops' = 0
  /\ UNCHANGED << rig, receivers, receiver_threads, stats, active_sessions,
                  pc, pending, forwarded, arrived, emitted, lastDatagram,
                  lastLapEvent, prevLapEvent, registered, bind_failed,
                  pubVars, clockVars, decVars, fineVars, slowVars, errVars,
                  genVars, bridgeVars, svcVars >>

\* one iteration of the loop of TelemetryGateway.start: bind the loop
\* variable, create the receiver and start its thread, which is left at
\* position first with the receiver attributes st
StartIteration(first, st) ==
  /\ startPc = "loop"
  /\ rig < Len(rigs)
  /\ LET i == rig + 1
         id == rigs[i].rig_id
     IN /\ rig' = i
        /\ receivers' = [r \in DOMAIN receivers \cup {id} |->
                           IF r = id THEN st ELSE receivers[r]]
        /\ registered' = registered \cup {id}
        /\ receiver_threads' = receiver_threads \cup {id}
        /\ stats' = [stats EXCEPT ![id].active = TRUE]
        /\ pc' = [pc EXCEPT ![id] = first]
        /\ startPc' = IF i = Len(rigs) THEN "done" ELSE "loop"
  /\ actor' = "main"
  /\ UNCHANGED << running, active_sessions, pending, forwarded, arrived,
                  emitted, lastDatagram, lastLapEvent, prevLapEvent, stops,
                  bind_failed, pubVars, clockVars, decVars, fineVars,
                  slowVars, errVars, genVars, bridgeVars, svcVars >>

\* a loop iteration together with the start of the new thread's run(),
\* whose port is free: the thread is left in its receive loop
StartReceiver == StartIteration("recv", Bound(NewReceiver))

\* receiver r takes datagram d from its socket and runs _process_packet up
\* to the call of packet_callback (at most cap datagrams per rig)
Receive(r, d, cap) ==
  /\ pc[r] = "recv"
  /\ arrived[r] < cap
  /\ LET res == ProcessPacket(receivers[r], d)
         changed == /\ receivers[r].current_session_uid # None
                    /\ res.st.current_session_uid
                         # receivers[r].current_session_uid
         isLap == res.ev.packetId = PACKET_ID_LAP_DATA
     IN /\ receivers' = SelfState(receivers, r, StampPacket(res.st, d, now))
        /\ pc' = [pc EXCEPT ![r] = AfterPacket(res.ev)]
        /\ IF res.ev # NoEvent
             THEN /\ pending' = [pending EXCEPT ![r] = res.ev]
                  /\ emitted' = [emitted EXCEPT ![r] = @ + 1]
             ELSE UNCHANGED << pending, emitted >>
        /\ lastLapEvent' =
             [lastLapEvent EXCEPT ![r] =
                IF isLap THEN res.ev ELSE IF changed THEN NoEvent ELSE @]
        /\ prevLapEvent' =
             [prevLapEvent EXCEPT ![r] =
                IF changed THEN NoEvent
                ELSE IF isLap THEN lastLapEvent[r] ELSE @]
  /\ arrived' = [arrived EXCEPT ![r] = @ + 1]
  /\ actor' = r
  /\ lastDatagram' = d
  /\ UNCHANGED << running, startPc, rig, receiver_threads, stats,
                  active_sessions, forwarded, lifeVars, pubVars, clockVars,
                  decVars, fineVars, slowVars, errVars, genVars, bridgeVars,
                  svcVars >>

\* the packet_callback lambda of receiver r: TelemetryGateway.
\* _on_packet_received with the rig the loop variable of start() is bound
\* to, then the return into the handler, which resets the one-shot flag
OnPacketReceived(r) ==
  /\ pc[r] = "callback"
  /\ LET packet_data == pending[r]
         rig_config == rigs[rig]
         session_uid == packet_data.sessionUID
     IN /\ stats' = TrackCurrent(StampStats(CountPacket(stats, r), r, now),
                               session_uid, r)
        /\ active_sessions' = TrackSession(active_sessions, session_uid, r)
        /\ forwarded' =
             [forwarded EXCEPT ![r] = Enrich(packet_data, r, rig_config)]
  /\ receivers' = SelfState(receivers, r, ResetFlag(receivers[r]))
  /\ pc' = [pc EXCEPT ![r] = "recv"]
  /\ pending' = [pending EXCEPT ![r] = NoEvent]
  /\ actor' = r
  /\ UNCHANGED << running, startPc, rig, receiver_threads, arrived, emitted,
                  lastDatagram, lastLapEvent, prevLapEvent, lifeVars, pubVars,
                  clockVars, decVars, fineVars, slowVars, errVars, genVars,
                  bridgeVars, svcVars >>

\* a datagram arrives at the port of rig r
ReceiveDatagram(r) == \E d \in FeedGW : Receive(r, d, MaxDatagrams)

Next ==
  \/ Start
  \/ StartReceiver
  \/ \E r \in RigIds : ReceiveDatagram(r)
  \/ \E r \in RigIds : OnPacketReceived(r)

\* the gateway with its receiver threads under any interleaving
Spec == Init /\ [][Next]_vars

\* the gateway's own state after start() has returned
StartedGateway ==
  /\ running = TRUE
  /\ startPc = "done"
  /\ rig = Len(rigs)
  /\ receivers = [r \in RigIds |-> Bound(NewReceiver)]
  /\ receiver_threads = RigIds
  /\ stats = [r \in RigIds |-> [NewStats EXCEPT !.active = TRUE]]
  /\ active_sessions = << >>
  /\ pc = [r \in RigIds |-> "recv"]
  /\ pending = [r \in RigIds |-> NoEvent]
  /\ forwarded = [r \in RigIds |-> NoEvent]
  /\ arrived = [r \in RigIds |-> 0]
  /\ emitted = [r \in RigIds |-> 0]
  /\ actor = "main"
  /\ lastDatagram = NoDatagram
  /\ lastLapEvent = [r \in RigIds |-> NoEvent]
  /\ prevLapEvent = [r \in RigIds |-> NoEvent]
  /\ registered = RigIds
  /\ stops = 0
  /\ bind_failed = {}
  /\ callback_errors = [r \in RigIds |-> 0]
  /\ listeners =
       [r \in RigIds |-> << [st |-> Bound(NewReceiver), pc |-> "recv"] >>]
  /\ registry = [r \in RigIds |-> 1]
  /\ BridgeInit
  /\ ServiceInit

\* the gateway after start() has returned
InitSM ==
  /\ StartedGateway
  /\ PublisherInit
  /\ now = StartTime
  /\ DecoderIdle

\* a datagram arrives at the port of the fed rig
FeedDatagram == \E d \in FeedSM : Receive(FedRig, d, MaxFeed)

\* the fed rig's callback runs
FeedCallback == OnPacketReceived(FedRig)

NextSM == FeedDatagram \/ FeedCallback

\* one source's state machine fed any sequence of datagrams
SpecSM == InitSM /\ [][NextSM]_vars

\* the exception leaves the handler before its reset of the flag and is
\* caught by the dispatch of _process_packet
PropagatedToDispatch(st) == st

\* _send_callback catches the exception of the callback and returns: the
\* handler goes on to its reset of the one-shot flag
CaughtInSend(st) == ResetFlag(st)

\* the packet_callback of receiver r raises inside the gateway before it
\* has updated anything; _send_callback logs the error
CallbackRaises(r) ==
  /\ pc[r] = "callback"
  /\ receivers' = SelfState(receivers, r, CaughtInSend(receivers[r]))
  /\ pc' = [pc EXCEPT ![r] = "recv"]
  /\ pending' = [pending EXCEPT ![r] = NoEvent]
  /\ actor' = r
  /\ callback_errors' = [callback_errors EXCEPT ![r] = @ + 1]
  /\ UNCHANGED << running, startPc, rig, receiver_threads, stats,
                  active_sessions, forwarded, arrived, emitted, lastDatagram,
                  lastLapEvent, prevLapEvent, lifeVars, pubVars, clockVars,
                  decVars, fineVars, slowVars, genVars, bridgeVars, svcVars >>

\* the event_callback the gateway forwards to raises: the gateway, which
\* has updated its statistics, logs the error and returns to the receiver
EventCallbackRaises(r) ==
  /\ pc[r] = "callback"
  /\ LET packet_data == pending[r]
         rig_config == rigs[rig]
         session_uid == packet_data.sessionUID
     IN /\ stats' = TrackCurrent(StampStats(CountPacket(stats, r), r, now),
                               session_uid, r)
        /\ active_sessions' = TrackSession(active_sessions, session_uid, r)
        /\ forwarded' =
             [forwarded EXCEPT ![r] = Enrich(packet_data, r, rig_config)]
  /\ receivers' = SelfState(receivers, r, CaughtInSend(receivers[r]))
  /\ pc' = [pc EXCEPT ![r] = "recv"]
  /\ pending' = [pending EXCEPT ![r] = NoEvent]
  /\ actor' = r
  /\ callback_errors' = [callback_errors EXCEPT ![r] = @ + 1]
  /\ UNCHANGED << running, startPc, rig, receiver_threads, arrived, emitted,
                  lastDatagram, lastLapEvent, prevLapEvent, lifeVars, pubVars,
                  clockVars, decVars, fineVars, slowVars, genVars, bridgeVars,
                  svcVars >>

\* a datagram arrives at the port of the fed rig
RaiseDatagram == \E d \in FeedSM : Receive(FedRig, d, MaxRaiseFeed)

\* the fed rig's callback raises in the gateway
RaiseInGateway == CallbackRaises(FedRig)

\* the fed rig's callback raises in the publisher
RaiseInPublisher == EventCallbackRaises(FedRig)

NextRaise ==
  \/ RaiseDatagram
  \/ FeedCallback
  \/ RaiseInGateway
  \/ RaiseInPublisher

\* one source's state machine while its callbacks may raise
SpecRaise == InitSM /\ [][NextRaise]_vars

\* the number of events handed to the publisher so far
PublishedEvents == Len(merged[rigs[1].rig_id]) + Len(merged[rigs[2].rig_id])

\* on_telemetry_packet called by the thread of rig r: the merge of one
\* event into the rig's snapshot
PubMerge(r) ==
  /\ pubPc[r] = "idle"
  /\ PublishedEvents < MaxPubEvents
  /\ \E packet_data \in PubFeed(r) :
       /\ aggregated_state' =
            StoreSnapshot(aggregated_state, r,
                          MergeSnapshot(StateOf(aggregated_state, r),
                                        packet_data, r))
       /\ merged' = [merged EXCEPT ![r] = Append(@, packet_data)]
  /\ key_order' = IF r \in DOMAIN aggregated_state
                    THEN key_order ELSE Append(key_order, r)
  /\ pubPc' = [pubPc EXCEPT ![r] = "emit_own"]
  /\ UNCHANGED << rooms, inbox, subPc, subArg, subPayload, subSeq, emissions,
                  joinedAt, unsubscribed, requests, gwVars, lifeVars,
                  clockVars, decVars, fineVars, slowVars, errVars, genVars,
                  bridgeVars, svcVars >>

\* ... its emit to the rig's own room
PubEmitOwn(r) ==
  /\ pubPc[r] = "emit_own"
  /\ inbox' = EmitRoom(inbox, rooms[r],
                       Message("update", r, Len(merged[r]),
                               aggregated_state[r]))
  /\ emissions' = [emissions EXCEPT ![r].own = @ + 1]
  /\ pubPc' = [pubPc EXCEPT ![r] = "emit_all"]
  /\ UNCHANGED << aggregated_state, rooms, subPc, subArg, subPayload, subSeq,
                  merged, joinedAt, unsubscribed, key_order, requests, gwVars,
                  lifeVars, clockVars, decVars, fineVars, slowVars, errVars,
                  genVars, bridgeVars, svcVars >>

\* ... and its emit to the room 'all', after which it returns
PubEmitAll(r) ==
  /\ pubPc[r] = "emit_all"
  /\ inbox' = EmitRoom(inbox, rooms[ALL],
                       Message("update", ALL, Len(merged[r]),
                               aggregated_state[r]))
  /\ emissions' = [emissions EXCEPT ![r].all = @ + 1]
  /\ pubPc' = [pubPc EXCEPT ![r] = "idle"]
  /\ UNCHANGED << aggregated_state, rooms, subPc, subArg, subPayload, subSeq,
                  merged, joinedAt, unsubscribed, key_order, requests, gwVars,
                  lifeVars, clockVars, decVars, fineVars, slowVars, errVars,
                  genVars, bridgeVars, svcVars >>

\* handle_subscribe_rig of client c for rig_id up to join_room
SubscribeRig(c, rig_id) ==
  /\ subPc[c] = "idle"
  /\ requests[c] < MaxRequests
  /\ rooms' = JoinRoom(rooms, c, rig_id)
  /\ subPc' = [subPc EXCEPT ![c] = "joined"]
  /\ subArg' = [subArg EXCEPT ![c] = rig_id]
  /\ joinedAt' =
       [joinedAt EXCEPT ![c] =
          IF rig_id \in DOMAIN aggregated_state /\ c \notin rooms[rig_id]
            THEN Len(inbox[c]) ELSE None]
  /\ unsubscribed' = [unsubscribed EXCEPT ![c] = @ \ {rig_id}]
  /\ requests' = [requests EXCEPT ![c] = @ + 1]
  /\ UNCHANGED << aggregated_state, inbox, pubPc, subPayload, subSeq, merged,
                  emissions, key_order, gwVars, lifeVars, clockVars, decVars,
                  fineVars, slowVars, errVars, genVars, bridgeVars, svcVars >>

\* ... the test for a snapshot and the construction of the replay payload
SubscribeBuild(c) ==
  /\ subPc[c] = "joined"
  /\ subArg[c] # ALL
  /\ IF subArg[c] \in DOMAIN aggregated_state
       THEN /\ subPayload' =
                 [subPayload EXCEPT
                    ![c] = ReplayPayload(subArg[c],
                                         aggregated_state[subArg[c]])]
            /\ subSeq' = [subSeq EXCEPT ![c] = Len(merged[subArg[c]])]
            /\ subPc' = [subPc EXCEPT ![c] = "built"]
            /\ UNCHANGED joinedAt
       ELSE /\ subPc' = [subPc EXCEPT ![c] = "idle"]
            /\ joinedAt' = [joinedAt EXCEPT ![c] = None]
            /\ UNCHANGED << subPayload, subSeq >>
  /\ UNCHANGED << aggregated_state, rooms, inbox, pubPc, subArg, merged,
                  emissions, unsubscribed, key_order, requests, gwVars,
                  lifeVars, clockVars, decVars, fineVars, slowVars, errVars,
                  genVars, bridgeVars, svcVars >>

\* ... and the emit of the payload to the caller
SubscribeSend(c) ==
  /\ subPc[c] = "built"
  /\ inbox' = EmitCaller(inbox, c,
                         Message("replay", c, subSeq[c], subPayload[c]))
  /\ subPc' = [subPc EXCEPT ![c] = "idle"]
  /\ subPayload' = [subPayload EXCEPT ![c] = << >>]
  /\ subSeq' = [subSeq EXCEPT ![c] = 0]
  /\ joinedAt' = [joinedAt EXCEPT ![c] = None]
  /\ UNCHANGED << aggregated_state, rooms, pubPc, subArg, merged, emissions,
                  unsubscribed, key_order, requests, gwVars, lifeVars,
                  clockVars, decVars, fineVars, slowVars, errVars, genVars,
                  bridgeVars, svcVars >>

\* handle_subscribe_all of client c up to join_room
SubscribeAll(c) ==
  /\ subPc[c] = "idle"
  /\ requests[c] < MaxRequests
  /\ rooms' = JoinRoom(rooms, c, ALL)
  /\ subPc' = [subPc EXCEPT ![c] = "joined"]
  /\ subArg' = [subArg EXCEPT ![c] = ALL]
  /\ requests' = [requests EXCEPT ![c] = @ + 1]
  /\ UNCHANGED << aggregated_state, inbox, pubPc, subPayload, subSeq, merged,
                  emissions, joinedAt, unsubscribed, key_order, gwVars,
                  lifeVars, clockVars, decVars, fineVars, slowVars, errVars,
                  genVars, bridgeVars, svcVars >>

\* the messages of the loop of handle_subscribe_all over the rigs in order
RECURSIVE ReplayAll(_, _)
ReplayAll(order, states) ==
  IF order = << >> THEN << >>
  ELSE << Message("replay", ALL, Len(merged[Head(order)]),
                  ReplayPayload(Head(order), states[Head(order)])) >>
       \o ReplayAll(Tail(order), states)

\* ... and its loop that sends the caller every rig's snapshot
SubscribeAllReplay(c) ==
  /\ subPc[c] = "joined"
  /\ subArg[c] = ALL
  /\ inbox' = [inbox EXCEPT
                 ![c] = @ \o ReplayAll(key_order, aggregated_state)]
  /\ subPc' = [subPc EXCEPT ![c] = "idle"]
  /\ UNCHANGED << aggregated_state, rooms, pubPc, subArg, subPayload, subSeq,
                  merged, emissions, joinedAt, unsubscribed, key_order,
                  requests, gwVars, lifeVars, clockVars, decVars, fineVars,
                  slowVars, errVars, genVars, bridgeVars, svcVars >>

\* handle_unsubscribe_rig of client c for rig_id
UnsubscribeRig(c, rig_id) ==
  /\ requests[c] < MaxRequests
  /\ rooms' = LeaveRoom(rooms, c, rig_id)
  /\ unsubscribed' = [unsubscribed EXCEPT ![c] = @ \cup {rig_id}]
  /\ requests' = [requests EXCEPT ![c] = @ + 1]
  /\ UNCHANGED << aggregated_state, inbox, pubPc, subPc, subArg, subPayload,
                  subSeq, merged, emissions, joinedAt, key_order, gwVars,
                  lifeVars, clockVars, decVars, fineVars, slowVars, errVars,
                  genVars, bridgeVars, svcVars >>

NextPub ==
  \/ \E r \in RigIds : PubMerge(r)
  \/ \E r \in RigIds : PubEmitOwn(r)
  \/ \E r \in RigIds : PubEmitAll(r)
  \/ \E c \in Clients : SubscribeRig(c, WatchedRig)
  \/ \E c \in Clients : SubscribeBuild(c)
  \/ \E c \in Clients : SubscribeSend(c)
  \/ \E c \in Clients : SubscribeAll(c)
  \/ \E c \in Clients : SubscribeAllReplay(c)
  \/ \E c \in Clients : UnsubscribeRig(c, WatchedRig)

\* the publisher fed by the started gateway's receiver threads while
\* clients subscribe and unsubscribe
SpecPub == InitSM /\ [][NextPub]_vars

\* the keys of the events in the order the dictionaries are built with:
\* the dict of the handler, then the keys _on_packet_received adds
ITEM_ORDER ==
  << "packetId", "sessionUID", "playerCarIndex", "lastLapTimeInMS",
     "currentLapTimeInMS", "currentLapNum", "position", "lapCompleted",
     "rig_id", "device_id", "driver_name", "individual_id", "source_type" >>

\* the keys packet_data.items() yields, in order
RECURSIVE ItemsFrom(_, _)
ItemsFrom(order, packet_data) ==
  IF order = << >> THEN << >>
  ELSE (IF Head(order) \in DOMAIN packet_data THEN << Head(order) >>
                                              ELSE << >>)
         \o ItemsFrom(Tail(order), packet_data)

Items(packet_data) == ItemsFrom(ITEM_ORDER, packet_data)

\* events handed to the publisher so far, the ones being merged included
FineEvents ==
  Len(merged[rigs[1].rig_id]) + Len(merged[rigs[2].rig_id])
    + Cardinality({ r \in RigIds : pubPc[r] = "merging" })

\* on_telemetry_packet called by the thread of rig r, up to its loop:
\* self.aggregated_state[rig_id] of the defaultdict creates the rig's empty
\* snapshot when there is none
MergeBegin(r) ==
  /\ pubPc[r] = "idle"
  /\ FineEvents < MaxFineEvents
  /\ \E packet_data \in PubFeed(r) :
       /\ mergePacket' = [mergePacket EXCEPT ![r] = packet_data]
       /\ mergeLeft' = [mergeLeft EXCEPT ![r] = Items(packet_data)]
  /\ aggregated_state' =
       StoreSnapshot(aggregated_state, r, StateOf(aggregated_state, r))
  /\ key_order' = IF r \in DOMAIN aggregated_state
                    THEN key_order ELSE Append(key_order, r)
  /\ pubPc' = [pubPc EXCEPT ![r] = "merging"]
  /\ UNCHANGED << rooms, inbox, subPc, subArg, subPayload, subSeq, merged,
                  emissions, joinedAt, unsubscribed, requests, iter, failed,
                  gwVars, lifeVars, clockVars, decVars, slowVars, errVars,
                  genVars, bridgeVars, svcVars >>

\* one round of its loop: current_state[key] = value
MergeKey(r) ==
  /\ pubPc[r] = "merging"
  /\ mergeLeft[r] # << >>
  /\ LET key == Head(mergeLeft[r])
     IN aggregated_state' =
          StoreSnapshot(aggregated_state, r,
                        Merge(aggregated_state[r],
                              [k \in {key} |-> mergePacket[r][k]]))
  /\ mergeLeft' = [mergeLeft EXCEPT ![r] = Tail(@)]
  /\ UNCHANGED << rooms, inbox, pubPc, subPc, subArg, subPayload, subSeq,
                  merged, emissions, joinedAt, unsubscribed, key_order,
                  requests, mergePacket, iter, failed, gwVars, lifeVars,
                  clockVars, decVars, slowVars, errVars, genVars, bridgeVars,
                  svcVars >>

\* the end of the loop: current_state['rig_id'] = rig_id
MergeStamp(r) ==
  /\ pubPc[r] = "merging"
  /\ mergeLeft[r] = << >>
  /\ aggregated_state' =
       StoreSnapshot(aggregated_state, r,
                     Merge(aggregated_state[r], [rig_id |-> r]))
  /\ merged' = [merged EXCEPT ![r] = Append(@, mergePacket[r])]
  /\ mergePacket' = [mergePacket EXCEPT ![r] = NoEvent]
  /\ pubPc' = [pubPc EXCEPT ![r] = "emit_own"]
  /\ UNCHANGED << rooms, inbox, subPc, subArg, subPayload, subSeq, emissions,
                  joinedAt, unsubscribed, key_order, requests, mergeLeft,
                  iter, failed, gwVars, lifeVars, clockVars, decVars,
                  slowVars, errVars, genVars, bridgeVars, svcVars >>

\* handle_subscribe_all of client c after join_room: the for statement
\* creates the iterator of self.aggregated_state.items(), which remembers
\* the size of the dictionary
IterateAll(c) ==
  /\ subPc[c] = "joined"
  /\ subArg[c] = ALL
  /\ iter' = [iter EXCEPT ![c] = [used |-> Len(key_order), pos |-> 0]]
  /\ subPc' = [subPc EXCEPT ![c] = "iterating"]
  /\ UNCHANGED << aggregated_state, rooms, inbox, pubPc, subArg, subPayload,
                  subSeq, merged, emissions, joinedAt, unsubscribed,
                  key_order, requests, mergePacket, mergeLeft, failed, gwVars,
                  lifeVars, clockVars, decVars, slowVars, errVars, genVars,
                  bridgeVars, svcVars >>

\* one round of that loop: the iterator raises RuntimeError when the
\* dictionary has changed size since it was created, ends after the last
\* key, and otherwise yields the next rig, whose snapshot is copied into
\* the payload sent to the caller
IterateNext(c) ==
  /\ subPc[c] = "iterating"
  /\ IF Len(key_order) # iter[c].used
       THEN /\ failed' = failed \cup {c}
            /\ subPc' = [subPc EXCEPT ![c] = "idle"]
            /\ iter' = [iter EXCEPT ![c] = NoIterator]
            /\ UNCHANGED inbox
       ELSE IF iter[c].pos = iter[c].used
         THEN /\ subPc' = [subPc EXCEPT ![c] = "idle"]
              /\ iter' = [iter EXCEPT ![c] = NoIterator]
              /\ UNCHANGED << inbox, failed >>
         ELSE LET rig_id == key_order[iter[c].pos + 1]
              IN /\ inbox' =
                      EmitCaller(inbox, c,
                                 Message("replay", ALL, Len(merged[rig_id]),
                                         ReplayPayload(
                                           rig_id,
                                           aggregated_state[rig_id])))
                 /\ iter' = [iter EXCEPT ![c].pos = @ + 1]
                 /\ UNCHANGED << subPc, failed >>
  /\ UNCHANGED << aggregated_state, rooms, pubPc, subArg, subPayload, subSeq,
                  merged, emissions, joinedAt, unsubscribed, key_order,
                  requests, mergePacket, mergeLeft, gwVars, lifeVars,
                  clockVars, decVars, slowVars, errVars, genVars, bridgeVars,
                  svcVars >>

NextFine ==
  \/ \E r \in RigIds : MergeBegin(r)
  \/ \E r \in RigIds : MergeKey(r)
  \/ \E r \in RigIds : MergeStamp(r)
  \/ \E r \in RigIds : PubEmitOwn(r)
  \/ \E r \in RigIds : PubEmitAll(r)
  \/ \E c \in Clients :
       requests[c] < MaxFineRequests /\ SubscribeRig(c, WatchedRig)
  \/ \E c \in Clients : SubscribeBuild(c)
  \/ \E c \in Clients : SubscribeSend(c)
  \/ \E c \in Clients : requests[c] < MaxFineRequests /\ SubscribeAll(c)
  \/ \E c \in Clients : IterateAll(c)
  \/ \E c \in Clients : IterateNext(c)

\* the publisher followed one dictionary operation at a time
SpecFine == InitSM /\ [][NextFine]_vars

\* the dashboard clients connected while one of them stops receiving
Viewers == {"c1", "c2"}

\* the emit that returns only when every client of the room has been sent
\* the message
AwaitedAcknowledging(members) == members

\* the clients self.socketio.emit(event, data, room=...) waits for before
\* it returns: none, it is called without callback and only queues the
\* message for the clients of the room
Awaited(members) == {}

\* client c has been sent every message queued for it
CaughtUp(c) == received[c] = Len(inbox[c])

\* the emits made so far by the listener thread of rig r have returned
EmitsReturned(r) ==
  \A c \in Awaited(rooms[r] \cup rooms[ALL]) : CaughtUp(c)

\* the publisher started with the viewers connected
InitSlow ==
  /\ StartedGateway
  /\ PublisherWith(Viewers)
  /\ now = StartTime
  /\ DecoderIdle

\* the listener thread of rig r hands its next event to the publisher
SlowMerge(r) ==
  /\ PublishedEvents < MaxSlowEvents
  /\ EmitsReturned(r)
  /\ PubMerge(r)

\* ... emits it to the rig's room
SlowEmitOwn(r) == PubEmitOwn(r)

\* ... and, that emit having returned, to the room 'all'
SlowEmitAll(r) == EmitsReturned(r) /\ PubEmitAll(r)

\* the connection of client c stops taking messages
Block(c) ==
  /\ blocked = {}
  /\ blocked' = {c}
  /\ UNCHANGED << received, gwVars, lifeVars, pubVars, clockVars, decVars,
                  fineVars, errVars, genVars, bridgeVars, svcVars >>

\* the server thread of client c's connection sends it the next message of
\* its queue
Deliver(c) ==
  /\ c \notin blocked
  /\ ~CaughtUp(c)
  /\ received' = [received EXCEPT ![c] = @ + 1]
  /\ UNCHANGED << blocked, gwVars, lifeVars, pubVars, clockVars, decVars,
                  fineVars, errVars, genVars, bridgeVars, svcVars >>

NextSlow ==
  \/ \E r \in RigIds : SlowMerge(r)
  \/ \E r \in RigIds : SlowEmitOwn(r)
  \/ \E r \in RigIds : SlowEmitAll(r)
  \/ \E c \in Viewers : c \notin rooms[ALL] /\ SubscribeAll(c)
  \/ \E c \in Viewers : SubscribeAllReplay(c)
  \/ \E c \in Viewers : Block(c)
  \/ \E c \in Viewers : Deliver(c)

\* the listener threads and the connections' threads are scheduled by the
\* operating system and the games keep sending: every step of a listener
\* thread and every send to a client that takes messages is eventually
\* made; nothing is assumed of a client's requests or of its blocking
SlowFairness ==
  /\ \A r \in RigIds : WF_vars(SlowMerge(r))
  /\ \A r \in RigIds : WF_vars(SlowEmitOwn(r))
  /\ \A r \in RigIds : WF_vars(SlowEmitAll(r))
  /\ \A c \in Viewers : WF_vars(Deliver(c))

\* the publisher while one client stops receiving, every viewer
\* subscribing to all rigs once
SpecSlow == InitSlow /\ [][NextSlow]_vars /\ SlowFairness

\* a receiver just created by start() with its thread started
NewListener == [st |-> NewReceiver, pc |-> "run"]

\* the receiver of listener l is in its receive loop with its socket bound
\* and its running flag up
Live(l) == l.pc = "recv" /\ l.st.socket = "open" /\ l.st.running

\* the listeners of rig r that hold the port
Holding(r) ==
  { i \in 1..Len(listeners[r]) : listeners[r][i].st.socket = "open" }

\* TelemetryGateway.start, called again or for the first time: for every
\* rig a new receiver and thread are created and stored under the rig's id,
\* whatever the dictionaries held
StartAgain ==
  /\ \A r \in RigIds : Len(listeners[r]) < MaxStarts
  /\ running' = TRUE
  /\ listeners' = [r \in RigIds |-> Append(listeners[r], NewListener)]
  /\ registry' = [r \in RigIds |-> Len(listeners[r]) + 1]
  /\ registered' = RigIds
  /\ receiver_threads' = RigIds
  /\ stats' = [r \in RigIds |-> [stats[r] EXCEPT !.active = TRUE]]
  /\ actor' = "main"
  /\ UNCHANGED << startPc, rig, receivers, active_sessions, pc, pending,
                  forwarded, arrived, emitted, lastDatagram, lastLapEvent,
                  prevLapEvent, stops, bind_failed, pubVars, clockVars,
                  decVars, fineVars, slowVars, errVars, bridgeVars, svcVars >>

\* TelemetryGateway.stop: receiver.stop() for every receiver in the
\* dictionary, then both dictionaries are cleared
StopAgain ==
  /\ stops < MaxStops
  /\ running' = FALSE
  /\ listeners' =
       [r \in RigIds |->
          [i \in 1..Len(listeners[r]) |->
             IF i = registry[r]
               THEN [listeners[r][i] EXCEPT !.st = ReceiverStop(@)]
               ELSE listeners[r][i]]]
  /\ registry' = [r \in RigIds |-> 0]
  /\ registered' = {}
  /\ receiver_threads' = {}
  /\ stops' = stops + 1
  /\ actor' = "main"
  /\ UNCHANGED << startPc, rig, receivers, stats, active_sessions, pc,
                  pending, forwarded, arrived, emitted, lastDatagram,
                  lastLapEvent, prevLapEvent, bind_failed, pubVars, clockVars,
                  decVars, fineVars, slowVars, errVars, bridgeVars, svcVars >>

\* listener i of rig r after its thread has made the step that turns its
\* receiver into st and leaves the thread at position next
Stepped(r, i, st, next) ==
  /\ listeners' = [listeners EXCEPT ![r][i] = [st |-> st, pc |-> next]]
  /\ actor' = r
  /\ UNCHANGED << running, startPc, rig, receivers, receiver_threads, stats,
                  active_sessions, pc, pending, forwarded, arrived, emitted,
                  lastDatagram, lastLapEvent, prevLapEvent, lifeVars,
                  registry, pubVars, clockVars, decVars, fineVars, slowVars,
                  errVars, bridgeVars, svcVars >>

\* run() of listener i of rig r up to its loop: the socket is created with
\* SO_REUSEADDR and bound, which succeeds when the port is free and, on the
\* systems that let two such UDP sockets share a port, also when another
\* listener holds it
ListenerBind(r, i) ==
  /\ listeners[r][i].pc = "run"
  /\ Stepped(r, i, Bound(listeners[r][i].st), "recv")

\* ... on the systems that refuse the port while another listener holds
\* it: the bind raises and the thread ends
ListenerBindFails(r, i) ==
  /\ listeners[r][i].pc = "run"
  /\ Holding(r) # {}
  /\ Stepped(r, i, BindFailure(listeners[r][i].st), "done")

\* the loop test of run() finds the running flag lowered: the thread runs
\* _cleanup and ends
ListenerExit(r, i) ==
  /\ listeners[r][i].pc = "recv"
  /\ ~listeners[r][i].st.running
  /\ Stepped(r, i, Cleanup(listeners[r][i].st), "done")

NextGen ==
  \/ StartAgain
  \/ StopAgain
  \/ \E r \in RigIds : \E i \in 1..Len(listeners[r]) : ListenerBind(r, i)
  \/ \E r \in RigIds : \E i \in 1..Len(listeners[r]) :
       ListenerBindFails(r, i)
  \/ \E r \in RigIds : \E i \in 1..Len(listeners[r]) : ListenerExit(r, i)

\* the gateway under any sequence of start() and stop() calls, every
\* receiver it has created being followed
SpecGen == Init /\ [][NextGen]_vars

\* the datagrams sent to the fed rig while its events are published: two
\* laps of one session and car telemetry of that session and of another
EdgeFeed ==
  { Lap(1, 1, 3, 91234, 1000), Lap(1, 1, 4, 91234, 1000) }
  \cup { Plain(FullLen(PACKET_ID_CAR_TELEMETRY), PACKET_ID_CAR_TELEMETRY,
               uid, 0) : uid \in SessionUIDs }

\* the event forwarded by the gateway for rig r has been merged and emitted
\* and on_telemetry_packet has returned
Published(r) == pubPc[r] = "idle" /\ Len(merged[r]) = emitted[r]

\* a datagram arrives at the port of the fed rig, whose thread is back in
\* its receive loop
EdgeDatagram ==
  /\ Published(FedRig)
  /\ \E d \in EdgeFeed : Receive(FedRig, d, MaxEdgeFeed)

\* on_telemetry_packet called by event_callback for the event the gateway
\* has just enriched for rig r: the merge into the rig's snapshot
ForwardedMerge(r) ==
  /\ pubPc[r] = "idle"
  /\ pc[r] = "recv"
  /\ Len(merged[r]) < emitted[r]
  /\ aggregated_state' =
       StoreSnapshot(aggregated_state, r,
                     MergeSnapshot(StateOf(aggregated_state, r),
                                   forwarded[r], r))
  /\ merged' = [merged EXCEPT ![r] = Append(@, forwarded[r])]
  /\ key_order' = IF r \in DOMAIN aggregated_state
                    THEN key_order ELSE Append(key_order, r)
  /\ pubPc' = [pubPc EXCEPT ![r] = "emit_own"]
  /\ UNCHANGED << rooms, inbox, subPc, subArg, subPayload, subSeq, emissions,
                  joinedAt, unsubscribed, requests, gwVars, lifeVars,
                  clockVars, decVars, fineVars, slowVars, errVars, genVars,
                  bridgeVars, svcVars >>

NextEdge ==
  \/ EdgeDatagram
  \/ FeedCallback
  \/ ForwardedMerge(FedRig)
  \/ PubEmitOwn(FedRig)
  \/ PubEmitAll(FedRig)
  \/ \E c \in Clients : c \notin rooms[ALL] /\ SubscribeAll(c)
  \/ \E c \in Clients : SubscribeAllReplay(c)

\* one source from its datagrams to the messages its subscriber is sent
SpecEdge == InitSM /\ [][NextEdge]_vars

\* datagrams sent to the ports in the life-cycle specification
FeedLife ==
  { Lap(1, 1, 3, 91234, 1000),
    Plain(HEADER_SIZE - 1, PACKET_ID_LAP_DATA, 1, 0) }

\* a loop iteration of start() that returns from thread.start() before the
\* new thread has run
LaunchReceiver == StartIteration("run", NewReceiver)

\* run() of rig r up to its loop, the port being free
RunBind(r) ==
  /\ pc[r] = "run"
  /\ receivers' = SelfState(receivers, r, Bound(receivers[r]))
  /\ pc' = [pc EXCEPT ![r] = "recv"]
  /\ actor' = r
  /\ UNCHANGED << running, startPc, rig, receiver_threads, stats,
                  active_sessions, pending, forwarded, arrived, emitted,
                  lastDatagram, lastLapEvent, prevLapEvent, lifeVars, pubVars,
                  clockVars, decVars, fineVars, slowVars, errVars, genVars,
                  bridgeVars, svcVars >>

\* the receivers when a failed bind closes the socket of every receiver
FailedBindShared(rs, r) == [x \in DOMAIN rs |-> BindFailure(rs[x])]

\* the receivers after the bind of receiver r has failed
FailedBind(rs, r) == SelfState(rs, r, BindFailure(rs[r]))

\* run() of rig r when its port cannot be bound: the thread ends
RunBindFails(r) ==
  /\ pc[r] = "run"
  /\ receivers' = FailedBind(receivers, r)
  /\ pc' = [pc EXCEPT ![r] = "done"]
  /\ bind_failed' = bind_failed \cup {r}
  /\ actor' = r
  /\ UNCHANGED << running, startPc, rig, receiver_threads, stats,
                  active_sessions, pending, forwarded, arrived, emitted,
                  lastDatagram, lastLapEvent, prevLapEvent, registered, stops,
                  pubVars, clockVars, decVars, fineVars, slowVars, errVars,
                  genVars, bridgeVars, svcVars >>

\* the loop test of run() finds the running flag lowered: the thread leaves
\* the loop, runs _cleanup and ends
RunExit(r) ==
  /\ pc[r] = "recv"
  /\ ~receivers[r].running
  /\ receivers' = SelfState(receivers, r, Cleanup(receivers[r]))
  /\ pc' = [pc EXCEPT ![r] = "done"]
  /\ actor' = r
  /\ UNCHANGED << running, startPc, rig, receiver_threads, stats,
                  active_sessions, pending, forwarded, arrived, emitted,
                  lastDatagram, lastLapEvent, prevLapEvent, lifeVars, pubVars,
                  clockVars, decVars, fineVars, slowVars, errVars, genVars,
                  bridgeVars, svcVars >>

\* the gateway attributes when stop() inverts the running flag
StoppedToggling(gw) ==
  [running |-> ~gw.running, receivers |-> {}, receiver_threads |-> {}]

\* the gateway attributes stop() assigns: the flag is lowered and both
\* dictionaries are cleared
Stopped(gw) ==
  [running |-> FALSE, receivers |-> {}, receiver_threads |-> {}]

\* TelemetryGateway.stop, called by the thread that called start()
GatewayStop ==
  /\ startPc \in {"init", "done"}
  /\ stops < MaxStops
  /\ LET gw == Stopped([running |-> running, receivers |-> registered,
                        receiver_threads |-> receiver_threads])
     IN /\ running' = gw.running
        /\ registered' = gw.receivers
        /\ receiver_threads' = gw.receiver_threads
  /\ receivers' = [r \in DOMAIN receivers |->
                     IF r \in registered THEN ReceiverStop(receivers[r])
                                         ELSE receivers[r]]
  /\ stops' = stops + 1
  /\ actor' = "main"
  /\ UNCHANGED << startPc, rig, stats, active_sessions, pc, pending,
                  forwarded, arrived, emitted, lastDatagram, lastLapEvent,
                  prevLapEvent, bind_failed, pubVars, clockVars, decVars,
                  fineVars, slowVars, errVars, genVars, bridgeVars, svcVars >>

\* a datagram arrives at the port of rig r while its thread is in recvfrom
LifeDatagram(r) == \E d \in FeedLife : Receive(r, d, MaxLifeDatagrams)

NextLife ==
  \/ Start
  \/ LaunchReceiver
  \/ \E r \in RigIds : RunBind(r)
  \/ \E r \in RigIds : RunBindFails(r)
  \/ \E r \in RigIds : LifeDatagram(r)
  \/ \E r \in RigIds : OnPacketReceived(r)
  \/ \E r \in RigIds : RunExit(r)
  \/ GatewayStop

\* the gateway from construction to stop(), with receiver threads that
\* bind, fail to bind, receive and end under any interleaving
SpecLife == Init /\ [][NextLife]_vars

\* the decoders applied to slices of any length
InitDec == Constructed /\ wire \in Slices /\ decoded = NotDecoded

\* the packet id of the per-car record type kind
PacketIdOf(kind) ==
  CASE kind = "telemetry" -> PACKET_ID_CAR_TELEMETRY
    [] kind = "status" -> PACKET_ID_CAR_STATUS
    [] kind = "damage" -> PACKET_ID_CAR_DAMAGE

\* a decoder is called on the slice and returns result
Decode(kinds, result) ==
  /\ wire.kind \in kinds
  /\ ~decoded.done
  /\ decoded' = Returned(result)
  /\ UNCHANGED << wire, gwVars, lifeVars, pubVars, clockVars, fineVars,
                  slowVars, errVars, genVars, bridgeVars, svcVars >>

\* PacketHeader.from_bytes is called on the slice
DecodeHeader ==
  Decode({"header"}, PacketHeader_from_bytes(Payload(wire.len)))

\* PacketLapData.from_bytes is called on the slice
DecodeLapData ==
  Decode({"lap"}, PacketLapData_from_bytes(LapPayload(wire.len, wire.seed)))

\* the decoder of a per-car pass-through record is called on the slice
DecodePerCar ==
  Decode({"telemetry", "status", "damage"},
         PerCar_from_bytes(PacketIdOf(wire.kind), wire.len))

\* PacketSessionData.from_bytes is called on the slice
DecodeSession ==
  Decode({"session"}, PacketSessionData_from_bytes(Payload(wire.len)))

\* parse_motion_packet is called on the slice
DecodeMotion ==
  Decode({"motion"},
         parse_motion_packet(Payload(wire.len), wire.player_index))

NextDec ==
  \/ DecodeHeader
  \/ DecodeLapData
  \/ DecodePerCar
  \/ DecodeSession
  \/ DecodeMotion

\* each decoder applied once to one slice
SpecDec == InitDec /\ [][NextDec]_vars

\* the format id of a game whose telemetry format TelemetryBridge.run
\* ignores
OtherFormat == 2023

\* the format test of TelemetryBridge.run
Supported(fmt) == ~(fmt # PACKET_FORMAT_2024)

\* datagrams sent to the ports in the status specification
FeedStatus ==
  { Lap(1, 1, 3, 91234, 1000),
    WithFormat(Lap(1, 1, 4, 91234, 1000), OtherFormat),
    Plain(HEADER_SIZE - 1, PACKET_ID_LAP_DATA, 1, 0) }

\* a second passes
Tick ==
  /\ now < StartTime + MaxTime
  /\ now' = now + 1
  /\ UNCHANGED << gwVars, lifeVars, pubVars, decVars, fineVars, slowVars,
                  errVars, genVars, bridgeVars, svcVars >>

\* a datagram arrives at the port of rig r
StatusDatagram(r) == \E d \in FeedStatus : Receive(r, d, MaxStatusDatagrams)

NextStatus ==
  \/ Tick
  \/ \E r \in RigIds : StatusDatagram(r)
  \/ \E r \in RigIds : OnPacketReceived(r)

\* the started gateway receiving datagrams while time passes
SpecStatus == InitSM /\ [][NextStatus]_vars

(***************************************************************************)
(* Properties                                                              *)
(***************************************************************************)
\* rig r took a datagram (lastDatagram') from its socket in this step
Fed(r) == arrived'[r] = arrived[r] + 1

\* ... and handed a lap event to its callback
EmitsLap(r) ==
  /\ Fed(r)
  /\ pc'[r] = "callback"
  /\ pending'[r].packetId = PACKET_ID_LAP_DATA

\* d is a lap record for the tracked car: a lap data datagram that decodes
\* and whose player index is a slot of the decoded list
TrackedLapRecord(d) ==
  /\ d.packetId = PACKET_ID_LAP_DATA
  /\ d.len >= FullLen(PACKET_ID_LAP_DATA)
  /\ d.playerCarIndex \in 0..(NUM_CARS - 1)

\* d fails the range validation of position, lap number or lap duration
OutOfRange(d) ==
  \/ d.carPosition \notin 1..MAX_POSITION
  \/ d.currentLapNum \notin 0..MAX_LAP_NUM
  \/ d.lastLapTimeInMS > MAX_LAP_TIME_MS
  \/ d.currentLapTimeInMS > MAX_LAP_TIME_MS

\* the lap and session tracking attributes of a receiver
LapState(st) ==
  << st.current_session_uid, st.current_lap_num, st.lap_just_completed,
     st.last_lap_time_ms, st.validated_last_lap_time >>

\* t is acceptable as a completed lap time
Acceptable(t) == MIN_COMPLETED_LAP_MS <= t /\ t <= MAX_COMPLETED_LAP_MS

\* C1: an emitted lap event has lapCompleted = true exactly when the
\* record's lap number is greater than the stored lap number and the stored
\* number is > 0; every such accepted record emits its event, the flag is
\* down again when the callback has returned (so the next event does not
\* repeat it), and the first lap event of a fresh session never has it.
C1_LapCompletedOnTransition ==
  [][\A r \in RigIds :
       /\ EmitsLap(r) =>
            LET d == lastDatagram'
                old == receivers[r]
            IN /\ ~old.lap_just_completed
               /\ old.current_session_uid = d.sessionUID =>
                    (pending'[r].lapCompleted <=>
                       (d.currentLapNum > old.current_lap_num
                        /\ old.current_lap_num > 0))
               /\ old.current_session_uid # d.sessionUID =>
                    ~pending'[r].lapCompleted
       /\ (Fed(r) /\ TrackedLapRecord(lastDatagram')
             /\ ~OutOfRange(lastDatagram')) => EmitsLap(r)
       /\ (pc[r] = "callback" /\ pc'[r] = "recv") =>
            ~receivers'[r].lap_just_completed
    ]_vars

\* a lap event with lapCompleted = true is being delivered
C1_Witness ==
  \E r \in RigIds :
    /\ pc[r] = "callback"
    /\ pending[r].packetId = PACKET_ID_LAP_DATA
    /\ pending[r].lapCompleted
    /\ lastDatagram.currentLapNum = 4

\* C2: whenever a record arrives whose session identifier differs from the
\* stored one, lap number, flag and validated time have been reset when the
\* next event is emitted, whatever the type of the record.
C2_ResetBeforeAnyEvent ==
  [][\A r \in RigIds :
       (/\ Fed(r)
        /\ pc'[r] = "callback"
        /\ receivers[r].current_session_uid # None
        /\ receivers[r].current_session_uid # lastDatagram'.sessionUID)
       => /\ receivers'[r].validated_last_lap_time = None
          /\ ~receivers'[r].lap_just_completed
          /\ receivers'[r].current_lap_num =
               IF pending'[r].packetId = PACKET_ID_LAP_DATA
                 THEN lastDatagram'.currentLapNum ELSE 0
    ]_vars

\* C3: a lap record for the tracked car that fails range validation causes
\* no event: the callback is not invoked.
C3_InvalidRecordEmitsNothing ==
  [][\A r \in RigIds :
       (Fed(r) /\ TrackedLapRecord(lastDatagram')
          /\ OutOfRange(lastDatagram'))
       => /\ pc'[r] = "recv"
          /\ pending' = pending
          /\ emitted' = emitted
          /\ stats' = stats
          /\ forwarded' = forwarded
    ]_vars

\* an out-of-range lap record has just been dropped by a receiver
C3_Witness ==
  /\ actor \in RigIds
  /\ pc[actor] = "recv"
  /\ TrackedLapRecord(lastDatagram)
  /\ lastDatagram.carPosition = 255
  /\ receivers[actor].packet_count = arrived[actor]
  /\ emitted[actor] < arrived[actor]

\* C4: a lap record that fails range validation leaves session
\* identifier, lap number, flag, last lap time and validated time unchanged,
\* also when it carries another session identifier.
C4_InvalidRecordKeepsState ==
  [][\A r \in RigIds :
       (Fed(r) /\ TrackedLapRecord(lastDatagram')
          /\ OutOfRange(lastDatagram'))
       => LapState(receivers'[r]) = LapState(receivers[r])
    ]_vars

\* C5: on a lap completion the record's last lap time is reported only if
\* it lies in [30000, 600000]; for every other candidate (0 included) the
\* event has lapCompleted = true and lastLapTimeInMS = 0.
C5_RejectedTimeWithheld ==
  [][\A r \in RigIds :
       (EmitsLap(r) /\ pending'[r].lapCompleted)
       => pending'[r].lastLapTimeInMS =
            IF Acceptable(lastDatagram'.lastLapTimeInMS)
              THEN lastDatagram'.lastLapTimeInMS ELSE 0
    ]_vars

\* C6: within one session every lap event that is not a completion carries
\* the lastLapTimeInMS of the lap event before it, so an accepted time is
\* repeated until the next completion.
C6_ValidatedTimePersists ==
  \A r \in RigIds :
    (/\ lastLapEvent[r] # NoEvent
     /\ prevLapEvent[r] # NoEvent
     /\ ~lastLapEvent[r].lapCompleted)
    => /\ lastLapEvent[r].sessionUID = prevLapEvent[r].sessionUID
       /\ lastLapEvent[r].lastLapTimeInMS = prevLapEvent[r].lastLapTimeInMS

\* a completion with an accepted time is followed by a lap event that
\* repeats the time
C6_Witness ==
  \E r \in RigIds :
    /\ prevLapEvent[r] # NoEvent
    /\ lastLapEvent[r] # NoEvent
    /\ prevLapEvent[r].lapCompleted
    /\ prevLapEvent[r].lastLapTimeInMS = 91234
    /\ ~lastLapEvent[r].lapCompleted
    /\ lastLapEvent[r].lastLapTimeInMS = 91234

\* the step of C7: in one session the lap number of the tracked car goes
\* from n > 0 to n + 1 with an acceptable last lap time
LapAdvances(r) ==
  /\ Fed(r)
  /\ TrackedLapRecord(lastDatagram')
  /\ ~OutOfRange(lastDatagram')
  /\ receivers[r].current_session_uid = lastDatagram'.sessionUID
  /\ receivers[r].current_lap_num > 0
  /\ lastDatagram'.currentLapNum = receivers[r].current_lap_num + 1
  /\ Acceptable(lastDatagram'.lastLapTimeInMS)

\* C7 as stated: the event of such a step has lapCompleted = true, carries
\* the record's last lap time and reports n as its lap number.
C7_ReportsCompletedLap ==
  [][\A r \in RigIds :
       LapAdvances(r)
       => /\ EmitsLap(r)
          /\ pending'[r].lapCompleted
          /\ pending'[r].lastLapTimeInMS = lastDatagram'.lastLapTimeInMS
          /\ pending'[r].currentLapNum = receivers[r].current_lap_num
    ]_vars

\* C7 amended: the event of such a step has lapCompleted = true, carries
\* the record's last lap time and reports the new lap n + 1 as
\* currentLapNum (the completed lap is currentLapNum - 1).
C7_ReportsNewLap ==
  [][\A r \in RigIds :
       LapAdvances(r)
       => /\ EmitsLap(r)
          /\ pending'[r].lapCompleted
          /\ pending'[r].lastLapTimeInMS = lastDatagram'.lastLapTimeInMS
          /\ pending'[r].currentLapNum = receivers[r].current_lap_num + 1
          /\ pending'[r].currentLapNum - 1 = receivers[r].current_lap_num
    ]_vars

\* the event of lap 3 -> 4 with last lap time 91234 is being delivered
C7_Witness ==
  \E r \in RigIds :
    /\ pc[r] = "callback"
    /\ pending[r].packetId = PACKET_ID_LAP_DATA
    /\ pending[r].lapCompleted
    /\ pending[r].currentLapNum = 4
    /\ pending[r].lastLapTimeInMS = 91234
    /\ prevLapEvent[r] # NoEvent
    /\ prevLapEvent[r].currentLapNum = 3

\* C8: a step of one listener leaves the state machine of every other
\* listener as it was, so each listener's state depends on its own records
\* only.
C8_ListenersIsolated ==
  [][\A r \in DOMAIN receivers :
       actor' # r => receivers'[r] = receivers[r]
    ]_vars

\* both listeners hold the lap state of their own feed
C8_Witness ==
  /\ DOMAIN receivers = RigIds
  /\ receivers["RIG_A"].current_lap_num = 4
  /\ receivers["RIG_A"].current_session_uid = 0
  /\ receivers["RIG_B"].current_lap_num = 3
  /\ receivers["RIG_B"].current_session_uid = 1

\* C9 as stated: the packets_received reported for a source equals the
\* number of datagrams that arrived at its port.
C9_CounterEqualsDatagrams ==
  \A r \in RigIds :
    pc[r] # "callback" => get_status.rigs[r].packets_received = arrived[r]

\* C9 amended: the packets_received reported for a source equals the number
\* of events its listener has delivered to the gateway callback (the events
\* it emitted, less the one whose callback is still running), and no other
\* source's traffic changes it.
C9_CounterEqualsEvents ==
  \A r \in RigIds :
    get_status.rigs[r].packets_received =
      emitted[r] - (IF pc[r] = "callback" THEN 1 ELSE 0)

\* two sources with different counts, one of them below its datagram count
C9_Witness ==
  /\ get_status.rigs["RIG_A"].packets_received = 2
  /\ get_status.rigs["RIG_B"].packets_received = 1
  /\ arrived["RIG_B"] = 2

\* C10: every event forwarded for a source carries the driver_name,
\* device_id and individual_id of that source's RigConfig.
C10_StampedWithOwnConfig ==
  \A r \in RigIds :
    forwarded[r] # NoEvent
    => /\ forwarded[r].rig_id = r
       /\ forwarded[r].driver_name = ConfigOf(r).driver_name
       /\ forwarded[r].device_id = ConfigOf(r).device_id
       /\ forwarded[r].individual_id = ConfigOf(r).individual_id

\* C11: a client whose subscribe handler has joined the room of a rig that
\* already had a snapshot is sent no update through that room before the
\* handler has sent it the snapshot
C11_SnapshotBeforeUpdates ==
  \A c \in Clients :
    (subPc[c] # "idle" /\ joinedAt[c] # None) =>
      \A i \in (joinedAt[c] + 1)..Len(inbox[c]) :
        ~(inbox[c][i].kind = "update" /\ inbox[c][i].room = subArg[c])

\* C12: for every rig, the updates a client has been sent for it are in the
\* order in which the rig's events were merged
C12_UpdatesInMergeOrder ==
  \A c \in Clients :
    \A i, j \in 1..Len(inbox[c]) :
      ( /\ i < j
        /\ inbox[c][i].kind = "update"
        /\ inbox[c][j].kind = "update"
        /\ inbox[c][i].data.rig_id = inbox[c][j].data.rig_id )
      => inbox[c][i].seq <= inbox[c][j].seq

\* a client has been sent the updates of two successive merges of one rig
C12_Witness ==
  \E c \in Clients :
    \E i, j \in 1..Len(inbox[c]) :
      /\ i < j
      /\ inbox[c][i].kind = "update"
      /\ inbox[c][j].kind = "update"
      /\ inbox[c][i].data.rig_id = inbox[c][j].data.rig_id
      /\ inbox[c][i].seq < inbox[c][j].seq

\* the keys of the events of a sequence
KeysOf(events) == UNION { DOMAIN events[i] : i \in 1..Len(events) }

\* the value of key k in the latest event of the sequence that carries it
RECURSIVE LastValue(_, _)
LastValue(events, k) ==
  IF k \in DOMAIN events[Len(events)]
    THEN events[Len(events)][k]
    ELSE LastValue(SubSeq(events, 1, Len(events) - 1), k)

\* C13: the snapshot of a rig holds every key of every event merged for the
\* rig so far, each with the value of the latest event that carried it
C13_SnapshotIsOverlay ==
  \A r \in RigIds :
    Len(merged[r]) > 0 =>
      /\ r \in DOMAIN aggregated_state
      /\ \A k \in KeysOf(merged[r]) :
           /\ k \in DOMAIN aggregated_state[r]
           /\ aggregated_state[r][k] = LastValue(merged[r], k)

\* a lap event followed by a telemetry event: the snapshot has the packet
\* id of the second and still the lap number of the first
C13_Witness ==
  \E r \in RigIds :
    /\ Len(merged[r]) = 2
    /\ merged[r][1].packetId = PACKET_ID_LAP_DATA
    /\ merged[r][2].packetId = PACKET_ID_CAR_TELEMETRY
    /\ "currentLapNum" \notin DOMAIN merged[r][2]
    /\ aggregated_state[r].packetId = PACKET_ID_CAR_TELEMETRY
    /\ aggregated_state[r].currentLapNum = 3

\* the overlay of a sequence of events
OverlayOf(events) == [k \in KeysOf(events) |-> LastValue(events, k)]

\* the emits of rig r still to come for the event its thread is publishing
OwnEmitDue(r) == IF pubPc[r] = "emit_own" THEN 1 ELSE 0
AllEmitDue(r) == IF pubPc[r] \in {"emit_own", "emit_all"} THEN 1 ELSE 0

NewMessages(c) ==
  { inbox'[c][i] : i \in (Len(inbox[c]) + 1)..Len(inbox'[c]) }

\* C15 as stated: a client that has unsubscribed from a rig is sent no
\* further update of that rig, whatever rooms it has joined
C15_NoUpdatesAfterUnsubscribe ==
  [][\A c \in Clients :
       \A rig_id \in unsubscribed[c] :
         \A m \in NewMessages(c) :
           ~(m.kind = "update" /\ m.data.rig_id = rig_id)]_vars

\* C15: a client that has unsubscribed from a rig is sent no further update
\* through that rig's room until it subscribes to the rig again, while as a
\* member of the room 'all' it is still sent the rig's updates through 'all'
C15_NoUpdatesThroughLeftRoom ==
  [][\A c \in Clients :
       \A rig_id \in unsubscribed[c] :
         /\ \A m \in NewMessages(c) : m.room # rig_id
         /\ ( /\ emissions'[rig_id].all = emissions[rig_id].all + 1
              /\ c \in rooms[ALL] )
            => \E m \in NewMessages(c) :
                 /\ m.kind = "update"
                 /\ m.room = ALL
                 /\ m.data.rig_id = rig_id]_vars

\* a client was sent the rig's first update through the rig's room, then
\* unsubscribed, and the rig's second update was emitted without it
C15_Witness ==
  \E c \in Clients :
    \E rig_id \in unsubscribed[c] :
      /\ emissions[rig_id].own = 2
      /\ \E i \in 1..Len(inbox[c]) :
           /\ inbox[c][i].kind = "update"
           /\ inbox[c][i].room = rig_id
           /\ inbox[c][i].seq = 1
      /\ \A i \in 1..Len(inbox[c]) : inbox[c][i].seq # 2

\* C16: once stop() has returned, every listener that start() had started
\* has left its receive loop and closed its socket, or is on its way out:
\* none is in the loop with its running flag raised, where no later stop()
\* can reach it because stop() has dropped the gateway's reference to it
C16_StoppedListenersLeave ==
  stops > 0 =>
    \A r \in DOMAIN receivers :
      pc[r] \in {"recv", "callback"} => ~receivers[r].running

\* the gateway's attributes and the running flag of every receiver
GatewayState ==
  << running, registered, receiver_threads, stats, active_sessions,
     [r \in DOMAIN receivers |-> receivers[r].running] >>

\* stop() returns in this step
StopReturns == stops' = stops + 1

\* C17: a call of stop() on a gateway that was never started, or that was
\* stopped and not started since, leaves the gateway as it was
C17_StopIdempotent ==
  [][(StopReturns /\ (stops > 0 \/ startPc = "init"))
       => GatewayState' = GatewayState]_vars

\* stop() has been called twice on a started gateway
C17_Witness ==
  /\ startPc = "done"
  /\ stops = 2
  /\ \E r \in RigIds : stats[r].packets_received > 0

\* C18: when stop() returns, every listener has ended with its socket
\* closed, and the receivers, the threads, the per-rig statistics and the
\* session map of the gateway are cleared
C18_StopReleasesEverything ==
  [][StopReturns =>
       /\ \A r \in DOMAIN receivers' :
            /\ pc'[r] = "done"
            /\ receivers'[r].socket # "open"
       /\ registered' = {}
       /\ receiver_threads' = {}
       /\ \A r \in RigIds : stats'[r] = NewStats
       /\ DOMAIN active_sessions' = {}]_vars

\* the listener of rig r ends on a bind failure in this step
BindFails(r) == r \in bind_failed' \ bind_failed

\* C19: a bind failure of one rig ends that rig's thread and touches nothing
\* else: start() goes on, and every other rig's thread still binds, takes
\* datagrams, hands its lap events to the callback and has them counted in
\* its own counter
C19_BindFailureIsolated ==
  [][/\ \A r \in RigIds :
          BindFails(r) =>
            /\ pc'[r] = "done"
            /\ << running, startPc, rig, registered, receiver_threads,
                  stats, active_sessions >>'
                 = << running, startPc, rig, registered, receiver_threads,
                      stats, active_sessions >>
            /\ \A o \in RigIds \ {r} :
                 /\ pc'[o] = pc[o]
                 /\ o \in DOMAIN receivers => receivers'[o] = receivers[o]
     /\ \A o \in RigIds \ bind_failed :
          bind_failed # {} =>
            /\ (pc[o] = "run" /\ pc'[o] = "recv") =>
                 /\ receivers'[o].running
                 /\ receivers'[o].socket = "open"
            /\ (Fed(o) /\ TrackedLapRecord(lastDatagram')
                       /\ ~OutOfRange(lastDatagram')) =>
                 /\ emitted'[o] = emitted[o] + 1
                 /\ pc'[o] = "callback"
            /\ (pc[o] = "callback" /\ pc'[o] = "recv") =>
                 /\ stats'[o].packets_received
                      = stats[o].packets_received + 1
                 /\ \A x \in RigIds \ {o} : stats'[x] = stats[x]]_vars

\* the first rig's bind has failed and the second rig's listener has
\* received a datagram whose event was counted
C19_Witness ==
  /\ bind_failed = {rigs[1].rig_id}
  /\ pc[rigs[1].rig_id] = "done"
  /\ pc[rigs[2].rig_id] = "recv"
  /\ receivers[rigs[2].rig_id].socket = "open"
  /\ emitted[rigs[2].rig_id] = 1
  /\ stats[rigs[2].rig_id].packets_received = 1
  /\ stats[rigs[1].rig_id].packets_received = 0

\* C20: get_status reports a rig whose listener has ended on a bind failure
\* as not active
C20_DeadListenerInactive ==
  \A r \in bind_failed :
    pc[r] = "done" => ~get_status.rigs[r].active

\* C21: get_status reports a rig as active exactly when a packet of that rig
\* arrived less than ACTIVE_WINDOW seconds ago
C21_ActiveWithinWindow ==
  \A r \in RigIds :
    get_status.rigs[r].active
      <=> /\ stats[r].last_packet_time # None
          /\ now - stats[r].last_packet_time < ACTIVE_WINDOW

\* the receiver drops datagram d without building an event (no handler
\* reads the lap tracking attributes before it decides to drop)
Dropped(d) == ProcessPacket(NewReceiver, d).ev = NoEvent

\* C22: a datagram that is too short, cannot be decoded or is rejected by
\* its handler leaves the listener in its receive loop with its socket open,
\* and the datagram that follows a dropped one is processed as usual
C22_FailureKeepsListening ==
  [][\A r \in RigIds :
       (actor' = r /\ arrived'[r] = arrived[r] + 1) =>
         /\ Dropped(lastDatagram') =>
              /\ pc'[r] = "recv"
              /\ receivers'[r].running
              /\ receivers'[r].socket = "open"
              /\ emitted'[r] = emitted[r]
         /\ (actor = r /\ Dropped(lastDatagram)
               /\ ~Dropped(lastDatagram')) =>
              /\ pc'[r] = "callback"
              /\ emitted'[r] = emitted[r] + 1
              /\ pending'[r] = ProcessPacket(receivers[r], lastDatagram').ev
              /\ receivers'[r].packet_count
                   = receivers[r].packet_count + 1]_vars

\* the listener has dropped a first datagram and built the event of the
\* lap record that followed it
C22_Witness ==
  /\ arrived[FedRig] = 2
  /\ emitted[FedRig] = 1
  /\ pc[FedRig] = "callback"
  /\ lastDatagram \in LapValidSM
  /\ pending[FedRig].packetId = PACKET_ID_LAP_DATA
  /\ receivers[FedRig].running

\* C23: a datagram whose format id is not supported is counted, but yields
\* no event and leaves the lap and session tracking of its receiver as it
\* was
C23_UnsupportedFormatDiscarded ==
  [][\A r \in RigIds :
       (actor' = r /\ arrived'[r] = arrived[r] + 1
          /\ lastDatagram'.len >= HEADER_SIZE
          /\ ~Supported(lastDatagram'.packetFormat)) =>
         /\ emitted'[r] = emitted[r]
         /\ pc'[r] = "recv"
         /\ LapState(receivers'[r]) = LapState(receivers[r])
         /\ receivers'[r].packet_count
              = receivers[r].packet_count + 1]_vars

\* C24: a decoder handed a slice shorter than the smallest one it accepts
\* returns None, and no exception leaves it
C24_ShortSliceFails ==
  (decoded.done /\ wire.len < MinSize(wire.kind, wire.player_index)) =>
    /\ ~decoded.ok
    /\ ~decoded.raised
    /\ decoded.entries = << >>

\* parse_motion_packet has returned None for a payload that ends one byte
\* before the end of the position of the player's car
C24_Witness ==
  /\ decoded.done
  /\ wire.kind = "motion"
  /\ wire.player_index = 1
  /\ wire.len = MOTION_DATA_SIZE + MOTION_POSITION_SIZE - 1
  /\ ~decoded.ok
  /\ ~decoded.raised

\* the lookup of the player's record at the head of _handle_lap_data
\* (empty when the handler returns without one)
PlayerLap(m_lapData, player_index) ==
  IF m_lapData = << >> \/ player_index >= Len(m_lapData)
    THEN << >>
    ELSE << m_lapData[player_index + 1] >>

\* entry holds what the game wrote for car car_index in the fields that
\* stand at the same position in the format and in the dataclass
FromCar(entry, car_index, seed) ==
  \A k \in 1..Len(WireFields) :
    LapDataFields[k] = WireFields[k] =>
      entry[LapDataFields[k]] = WireValue(k, car_index, seed)

\* the lap data payload of the slice being decoded
WirePayload == LapPayload(wire.len, wire.seed)

\* the tuple from_bytes unpacks for car car_index of that payload
WireTuple(car_index) ==
  Unpack(LAP_DATA_FORMAT_NO_FASTEST_LAP,
         Slice(WirePayload, ChunkStart(car_index),
               ChunkStart(car_index) + LAP_DATA_SIZE)).tuple

\* a lap data payload has been decoded into a packet
LapDecoded == decoded.done /\ wire.kind = "lap" /\ decoded.ok

C27_LapRecordRoundTrip ==
  LapDecoded =>
    \A i \in 1..Len(decoded.entries) :
      \A k \in 1..Len(LapDataFields) :
        LET f == LapDataFields[k]
            sent == WireRecord(i - 1, wire.seed)
        IN decoded.entries[i][f] = IF f \in DOMAIN sent THEN sent[f] ELSE 0

\* C29: get_status reports as current_session of a rig the session
\* identifier of the event forwarded last for that rig
C29_CurrentSessionIsLatest ==
  \A r \in RigIds :
    forwarded[r] # NoEvent =>
      get_status.rigs[r].current_session = forwarded[r].sessionUID


\* the snapshot payloads of rig_id that stand for a whole number of its
\* merged events
WholeSnapshots(rig_id) ==
  { ReplayPayload(rig_id, OverlayOf(SubSeq(merged[rig_id], 1, n))) :
      n \in 0..Len(merged[rig_id]) }

\* C28: no subscribe handler fails while the listener threads merge, and
\* every snapshot a caller is sent on subscribe or subscribe-all is the
\* rig's snapshot after a whole number of its merged events
C28_SubscribeSeesWholeEvents ==
  /\ failed = {}
  /\ \A c \in Clients : \A i \in 1..Len(inbox[c]) :
       inbox[c][i].kind = "replay"
         => inbox[c][i].data \in WholeSnapshots(inbox[c][i].data.rig_id)


\* the events published so far have all been merged and emitted
AllPublished ==
  /\ PublishedEvents = MaxSlowEvents
  /\ \A r \in RigIds : pubPc[r] = "idle"

C31_StoredLapFollowsRecord ==
  [][\A r \in RigIds :
       (Fed(r) /\ TrackedLapRecord(lastDatagram')
          /\ ~OutOfRange(lastDatagram'))
         => LET d == lastDatagram'
                old == receivers[r]
            IN /\ receivers'[r].current_lap_num = d.currentLapNum
               /\ (/\ old.current_session_uid = d.sessionUID
                   /\ old.current_lap_num > 0
                   /\ d.currentLapNum > old.current_lap_num)
                    => (EmitsLap(r) /\ pending'[r].lapCompleted)
    ]_vars

\* a completion fires for lap 4 right after a record of lap 3 that still
\* carried the time validated at an earlier completion of the session: the
\* lap number had gone up, down to 3 and up again
C31_Witness ==
  \E r \in RigIds :
    /\ pc[r] = "callback"
    /\ pending[r].packetId = PACKET_ID_LAP_DATA
    /\ pending[r].lapCompleted
    /\ pending[r].currentLapNum = 4
    /\ prevLapEvent[r] # NoEvent
    /\ prevLapEvent[r].currentLapNum = 3
    /\ prevLapEvent[r].lastLapTimeInMS = 91234
    /\ receivers[r].current_lap_num = 4

\* C32: an exception raised by the callback never reaches the listener:
\* the thread is back at receive with the receiver running and its socket
\* open, the transition of the record is complete (lap number stored, flag
\* down), and the next lap record reports a completion exactly when its lap
\* number rose.
C32_CallbackErrorContained ==
  [][\A r \in RigIds :
       /\ callback_errors'[r] # callback_errors[r] =>
            /\ pc[r] = "callback" /\ pc'[r] = "recv"
            /\ receivers'[r].running
            /\ receivers'[r].socket = receivers[r].socket
            /\ ~receivers'[r].lap_just_completed
            /\ pending[r].packetId = PACKET_ID_LAP_DATA =>
                 receivers'[r].current_lap_num = pending[r].currentLapNum
       /\ EmitsLap(r) =>
            LET d == lastDatagram'
                old == receivers[r]
            IN old.current_session_uid = d.sessionUID =>
                 (pending'[r].lapCompleted <=>
                    (d.currentLapNum > old.current_lap_num
                     /\ old.current_lap_num > 0))
    ]_vars

\* a lap record is delivered without the flag after the callbacks of the
\* two events before it, the latter a lap completion, have both raised
C32_Witness ==
  \E r \in RigIds :
    /\ pc[r] = "callback"
    /\ emitted[r] = 3
    /\ callback_errors[r] = 2
    /\ pending[r].packetId = PACKET_ID_LAP_DATA
    /\ ~pending[r].lapCompleted
    /\ prevLapEvent[r] # NoEvent
    /\ prevLapEvent[r].lapCompleted

\* the messages a client was sent that carry lapCompleted = true
FlaggedMessages(c) ==
  { i \in 1..Len(inbox[c]) :
      /\ "lapCompleted" \in DOMAIN inbox[c][i].data
      /\ inbox[c][i].data.lapCompleted }

\* C33: a message with lapCompleted = true is the update published for a
\* lap completion itself: neither the update published for a later event of
\* the source nor a replayed snapshot carries the flag again.
C33_FlagOneShotAtSubscriber ==
  \A c \in Clients : \A i \in FlaggedMessages(c) :
    LET m == inbox[c][i]
        event == merged[m.data.rig_id][m.seq]
    IN /\ m.kind = "update"
       /\ event.packetId = PACKET_ID_LAP_DATA
       /\ event.lapCompleted

\* the lap events among the first n events merged for rig r
LapEventsUpTo(r, n) ==
  { k \in 1..n : merged[r][k].packetId = PACKET_ID_LAP_DATA }

\* C34: the lap fields of every published snapshot come from the session
\* the snapshot names: the latest lap event merged into it has the
\* snapshot's sessionUID.
C34_LapFieldsOfNamedSession ==
  \A c \in Clients : \A i \in 1..Len(inbox[c]) :
    LET m == inbox[c][i]
        r == m.data.rig_id
        laps == LapEventsUpTo(r, m.seq)
    IN laps # {} =>
         \A k \in laps :
           (\A j \in laps : j <= k)
             => merged[r][k].sessionUID = m.data.sessionUID

\* C35: at every moment each rig has at most one live listener, whatever
\* start() and stop() calls were made.
C35_OneLiveListenerPerSource ==
  \A r \in RigIds :
    Cardinality({ i \in 1..Len(listeners[r]) : Live(listeners[r][i]) }) <= 1

BridgeLap(idx, lap, last) ==
  Datagram(FullLen(PACKET_ID_LAP_DATA), PACKET_ID_LAP_DATA, 1, idx,
           1, lap, last, 1000)

\* datagrams sent to the port of the bridge
BridgeFeed ==
  { BridgeLap(0, 3, 0), BridgeLap(0, 4, 91234), BridgeLap(0, 5, 95000),
    BridgeLap(SPECTATOR_INDEX, 4, 91234),
    WithFormat(BridgeLap(0, 4, 91234), OtherFormat),
    Plain(HEADER_SIZE - 1, PACKET_ID_LAP_DATA, 1, 0) }
  \cup { Plain(FullLen(id), id, 1, 0) :
           id \in {PACKET_ID_CAR_TELEMETRY, PACKET_ID_CAR_STATUS,
                   PACKET_ID_CAR_DAMAGE} }

\* run(), steps 1 and 2: a datagram is received and processed
BridgeDatagram ==
  \E d \in BridgeFeed :
    /\ bridge.packets_received < MaxBridgeDatagrams
    /\ bridge' = BridgeProcess(bridge, d)
    /\ completions' = IF CompletionDetected(bridge, d)
                        THEN Append(completions, d.lastLapTimeInMS)
                        ELSE completions
    /\ UNCHANGED << tasks, workers, posted, submits >>
    /\ UNCHANGED << gwVars, lifeVars, pubVars, clockVars, decVars, fineVars,
                    slowVars, errVars, genVars, svcVars >>

\* run(), step 3: the send interval has passed and _send_payload is
\* submitted to the executor
BridgeSubmit ==
  /\ submits < MaxSubmits
  /\ submits' = submits + 1
  /\ tasks' = tasks + 1
  /\ UNCHANGED << bridge, workers, posted, completions >>
  /\ UNCHANGED << gwVars, lifeVars, pubVars, clockVars, decVars, fineVars,
                  slowVars, errVars, genVars, svcVars >>

\* a step of worker w that leaves it as next
WorkerStep(w, next) ==
  /\ workers' = [workers EXCEPT ![w] = next]
  /\ UNCHANGED << completions, submits >>
  /\ UNCHANGED << gwVars, lifeVars, pubVars, clockVars, decVars, fineVars,
                  slowVars, errVars, genVars, svcVars >>

\* an idle worker thread takes the next task of the executor's queue
WorkerTake(w) ==
  /\ workers[w].pc = "idle"
  /\ tasks > 0
  /\ tasks' = tasks - 1
  /\ WorkerStep(w, [IdleWorker EXCEPT !.pc = "prepare"])
  /\ UNCHANGED << bridge, posted >>

\* _prepare_payload up to is_lap_complete = self.lap_just_completed
WorkerReadFlag(w) ==
  /\ workers[w].pc = "prepare"
  /\ IF bridge.latest_telemetry = None /\ bridge.latest_lap_data = None
       THEN WorkerStep(w, [workers[w] EXCEPT !.pc = "post",
                                             !.payload = MinimalPayload])
       ELSE WorkerStep(w, [workers[w] EXCEPT
                             !.pc = "build",
                             !.is_lap_complete = bridge.lap_just_completed])
  /\ UNCHANGED << bridge, tasks, posted >>

\* the rest of _prepare_payload: the payload is built from the attributes
\* as they are now, or the task ends with the AttributeError of a missing
\* record
WorkerBuild(w) ==
  /\ workers[w].pc = "build"
  /\ IF RecordsPresent(bridge)
       THEN WorkerStep(w, [workers[w] EXCEPT
                             !.pc = "post",
                             !.payload =
                                FullPayload(bridge,
                                            workers[w].is_lap_complete)])
       ELSE WorkerStep(w, IdleWorker)
  /\ UNCHANGED << bridge, tasks, posted >>

\* _send_http_sync: session.post returns a 2xx answer (ok) or the send
\* fails with another status, a timeout or a connection error
WorkerPost(w) ==
  /\ workers[w].pc = "post"
  /\ \E ok \in BOOLEAN :
       IF ok
         THEN /\ posted' = Append(posted, workers[w].payload)
              /\ WorkerStep(w, [workers[w] EXCEPT !.pc = "sent"])
         ELSE /\ posted' = posted
              /\ WorkerStep(w, IdleWorker)
  /\ UNCHANGED << bridge, tasks >>

\* _send_http_sync after the 2xx answer: "if self.lap_just_completed" and
\* the reset of the flag
WorkerAfterSend(w) ==
  /\ workers[w].pc = "sent"
  /\ bridge' = ClearAfterSend(bridge)
  /\ WorkerStep(w, IdleWorker)
  /\ UNCHANGED << tasks, posted >>

NextBridge ==
  \/ BridgeDatagram
  \/ BridgeSubmit
  \/ \E w \in Workers : WorkerTake(w)
  \/ \E w \in Workers : WorkerReadFlag(w)
  \/ \E w \in Workers : WorkerBuild(w)
  \/ \E w \in Workers : WorkerPost(w)
  \/ \E w \in Workers : WorkerAfterSend(w)

\* the bridge receiving datagrams while its executor sends payloads
SpecBridge == Init /\ [][NextBridge]_vars

\* the lap tracking attributes of the bridge
BridgeLapState(b) ==
  << b.current_lap_num, b.lap_just_completed, b.last_lap_time_ms >>

\* the receiver of rig r has taken a lap data datagram whose header index
\* names no entry of the decoded list
UnslottedLapDatagram(r) ==
  /\ Fed(r)
  /\ lastDatagram'.len >= HEADER_SIZE
  /\ lastDatagram'.packetId = PACKET_ID_LAP_DATA
  /\ lastDatagram'.playerCarIndex
       >= LapDataCount(lastDatagram'.len - HEADER_SIZE)

\* F1TelemetryReceiverMulti: such a datagram yields no event and leaves the
\* lap tracking attributes as they were
UnslottedIgnoredByReceiver ==
  [][\A r \in RigIds :
       UnslottedLapDatagram(r)
         => /\ pc'[r] = "recv"
            /\ pending'[r] = NoEvent
            /\ LapState(receivers'[r]) = LapState(receivers[r])]_vars

\* C37: a lap data datagram whose header names a player index that is no
\* slot of the car list (255, the spectator index) leaves the stored lap
\* number, the lap-completed flag and the completed lap time of the
\* TelemetryBridge unchanged
C37_UnslottedLapDatagramIgnored ==
  [][(/\ bridge'.packets_received # bridge.packets_received
      /\ bridge'.latest_header.packetId = PACKET_ID_LAP_DATA
      /\ ~(bridge'.latest_header.playerCarIndex \in 0..(NUM_CARS - 1)))
       => BridgeLapState(bridge') = BridgeLapState(bridge)]_vars

\* the payloads with lapCompleted = true that the API has answered with a
\* 2xx, in the order of their answers
LapPosted ==
  SelectSeq(posted,
            LAMBDA p : "lapCompleted" \in DOMAIN p /\ p.lapCompleted)

\* no completion is reported in more payloads than one
NotReportedTwice == Len(LapPosted) <= Len(completions)

\* the flag is down only when every completion detected so far has been
\* reported in a payload the API accepted
ClearedOnlyAfterSend ==
  ~bridge.lap_just_completed => Len(LapPosted) >= Len(completions)

\* the accepted lap payloads carry the times of the completions, in order
CarriesLapTime ==
  \A i \in 1..Len(LapPosted) :
    i <= Len(completions) => LapPosted[i].lastLapTime = completions[i]

\* C38: in the TelemetryBridge every detected lap completion is reported by
\* exactly one successfully sent payload with lapCompleted = true that
\* carries the time of that lap, however the receive loop and the two send
\* workers interleave: none is reported twice, none is lost, and the flag is
\* cleared only after its payload was sent
C38_OnePayloadPerCompletion ==
  /\ NotReportedTwice
  /\ ClearedOnlyAfterSend
  /\ CarriesLapTime

(***************************************************************************)
(* The SessionService called by the pages                                  *)
(***************************************************************************)
\* a call on the service that changes no other part of the system
ServiceCall ==
  /\ calls < MaxCalls
  /\ calls' = calls + 1
  /\ UNCHANGED << gwVars, lifeVars, pubVars, clockVars, decVars, fineVars,
                  slowVars, errVars, genVars, bridgeVars >>

\* create_waiting_session: a row with a fresh Id is inserted
create_waiting_session(id) ==
  /\ Session__c[id] = NoSession
  /\ ServiceCall
  /\ Session__c' = [Session__c EXCEPT ![id] = WaitingSession(RigNumber(id))]
  /\ UNCHANGED svc_active

\* start_session(id); for an id without a row it raises ValueError
start_session(id) ==
  /\ ServiceCall
  /\ LET session == Session__c[id] IN
     IF session = NoSession
       THEN UNCHANGED << Session__c, svc_active >>
       ELSE /\ Session__c' = [Session__c EXCEPT
                                ![id] = StartedSession(session, now)]
            /\ svc_active' =
                 IF session.Session_Status__c = "Active"
                   THEN svc_active
                   ELSE Merge(svc_active,
                              [n \in {session.Rig_Number__c} |-> id])

\* complete_session(id); for an id without a row it raises ValueError
complete_session(id) ==
  /\ ServiceCall
  /\ LET session == Session__c[id] IN
     IF session = NoSession
       THEN UNCHANGED << Session__c, svc_active >>
       ELSE /\ Session__c' = [Session__c EXCEPT
                                ![id] = CompletedSession(session, now)]
            /\ svc_active' =
                 [n \in DOMAIN svc_active \ {session.Rig_Number__c}
                    |-> svc_active[n]]

NextService ==
  \/ Tick
  \/ \E id \in SessionIds : create_waiting_session(id)
  \/ \E id \in SessionIds : start_session(id)
  \/ \E id \in SessionIds : complete_session(id)

\* the service called while time passes
SpecService == Init /\ [][NextService]_vars

\* the place of a status on the path Waiting, Active, Completed
StatusRank(status) ==
  CASE status = "Waiting" -> 1
    [] status = "Active" -> 2
    [] status = "Completed" -> 3

\* C39: whatever create_waiting_session, start_session and
\* complete_session calls are made on a session, its status only moves
\* forward along Waiting, Active, Completed: start_session leaves an Active
\* session as it is, start time included, and a Completed session never
\* becomes Active again
C39_StatusOnlyMovesForward ==
  [][\A id \in SessionIds :
       Session__c[id] # NoSession
         => /\ Session__c'[id] # NoSession
            /\ StatusRank(Session__c'[id].Session_Status__c)
                 >= StatusRank(Session__c[id].Session_Status__c)
            /\ (/\ Session__c[id].Session_Status__c = "Active"
                /\ Session__c'[id].Session_Status__c = "Active")
                 => Session__c'[id].Session_Start_Time__c
                      = Session__c[id].Session_Start_Time__c]_vars

\* start_session leaves an Active session as it is
StartKeepsActive ==
  [][\A id \in SessionIds :
       (/\ Session__c[id] # NoSession
        /\ Session__c[id].Session_Status__c = "Active"
        /\ Session__c'[id].Session_Status__c = "Active")
         => Session__c'[id] = Session__c[id]]_vars

==============================================================================
